---- MODULE Spec2Model ----
(***************************************************************************)
(* A model of the Stroboscope query compiler and scheduler.                *)
(*                                                                         *)
(* Part I   : the scheduling pipelines (first-fit-decreasing, bin-packing, *)
(*            schedule replication, max-filling) of                        *)
(*            stroboscope/algorithms/schedule and the budget derivation of *)
(*            stroboscope/requirements.py.                                 *)
(* Part II  : the key-point sampling algorithms of                         *)
(*            stroboscope/algorithms/key_points.py and the shortest-path   *)
(*            trees of stroboscope/algorithms/graph.py they rely on.       *)
(* Part III : the network database of stroboscope/network_database.py:     *)
(*            the shortest-path trees by cost, the region resolver and the *)
(*            bandwidth measurements of the prefixes.                      *)
(* Part IV  : the region confinement of                                   *)
(*            stroboscope/algorithms/confine.py: the confinement edges and *)
(*            nodes, the relaxed confinement and its node multiway cut.    *)
(* Part V   : the collector of stroboscope/collector.py: the campaign     *)
(*            loop, the execution of the slots and the packets that the    *)
(*            listener thread of stroboscope/dissect.py hands to it.       *)
(*                                                                         *)
(* Queries are identified by their index in the query list; queries[i] is  *)
(* the cost of query i.  Python compares equal-cost (cost, q) tuples by    *)
(* the identity of q: the index plays the role of that identity, and Init  *)
(* draws every cost vector, so every tie-break is covered.  Bandwidths are *)
(* naturals.  A slot is the set of the queries it holds: the order of the  *)
(* list that holds them in Python is not part of the model.                *)
(***************************************************************************)
EXTENDS Integers, Sequences, FiniteSets, TLC

(***************************************************************************)
(* Bounds of the model.                                                    *)
(***************************************************************************)
MaxQueries == 3
MaxCost == 3
MaxUsing == 3
MaxSlots == 4
MaxSchedLen == 3
NumRouters == 4
MaxPathLen == 4
NumCore == 3
MaxMetric == 2
MaxRegionLen == 3
NumPrefixes == 2
MaxRate == 2
MaxCampaign == 3
MaxRetention == 1
NumConfNodes == 6
MaxConfRegion == 2
MaxEgresses == 1
NumNmcNodes == 4
NumCutNodes == 5
NumGrowNodes == 6
MaxTerminals == 3
MaxCut == 2
NumColQueries == 2
MaxColSlots == 2
MaxColCost == 1
MaxCampaigns == 2
MaxPackets == 2
MaxPktLen == 1

(***************************************************************************)
(* Program constants.                                                      *)
(***************************************************************************)
min_slot_duration == 25
max_path_delay == 50
max_router_to_collector_delay == 25

VARIABLES
    pc,            \* position of the scheduling call
    queries,       \* queries[i] = cost of query i
    using,         \* budget.using
    during,        \* Requirements.during, in milliseconds
    max_slots,     \* Requirements.slot_count / budget.max_slots
    float_slots,   \* whether budget.max_slots is a float
    function,      \* the pipeline name given to balance_and_schedule
    left,          \* find_first_fit_estimation: queries left to place
    slots,         \* find_first_fit_estimation: the open slots
    sched,         \* _AbstractPipeline.solve: the current schedule
    stage,         \* index in _AbstractPipeline.bmax of the next stage
    replSchedule,  \* ScheduleReplication.schedule
    mapping,       \* _SlotMapper.new_schedule_mapping
    max_timeslots, \* Solver.max_timeslots
    done,          \* history: the schedules returned by the stages so far
    failed         \* history: the stage that raised NoSchedule, or "none"

schedVars == <<pc, queries, using, during, max_slots, float_slots, function,
               left, slots, sched, stage, replSchedule, mapping, max_timeslots, done,
               failed>>

VARIABLES
    kpc,           \* position of the key-point sampling call
    graph,         \* NetGraph: the set of directed edges (u, v)
    edge_spt,      \* NetGraph.edge_spt: edge_spt[u][v] lists the paths
    level,         \* index in KPS_OPT of the algorithm called
    original_path, \* the path to sample
    queue,         \* find_key_points: q, the decompositions left to try
    memo,          \* find_key_points: end points of accepted sub-paths
    reject,        \* find_key_points: end points of rejected sub-paths
    start,         \* find_key_points_segment_spt: start of the segment
    new_path,      \* find_key_points_segment_spt: key points found so far
    keypoints      \* the list of (router, gap) returned

kpsVars == <<kpc, graph, edge_spt, level, original_path, queue, memo, reject,
             start, new_path, keypoints>>

VARIABLES
    metric,        \* NetGraph: metric[<<u, v>>] is the cost of the edge (u, v)
    egresses,      \* NetGraph.egresses
    graph_spt,     \* NetGraph.spt: spt[u][v] lists the cheapest paths
    spt_cost,      \* NetGraph.spt_cost: spt_cost[u][v] is their cost
    todo,          \* get_spt: the nodes g.nodes_iter() has yet to give
    npc,           \* position of the call to the network database
    region,        \* resolve_region: the region to resolve
    resolved       \* resolve_region: paths, the list it returns

netVars == <<metric, egresses, graph_spt, spt_cost, todo, npc, region, resolved>>

VARIABLES
    bpc,           \* position of the calls about the bandwidth
    net_max_bw,    \* NetDB.max_bw
    past_campaigns_considered, \* NetDB.past_campaigns_considered
    past_measurements, \* NetDB.past_measurements: prefix -> [(idx, bw)]
    prediction,    \* history: the last usage_prediction call and its value,
                   \* if no measurement was recorded since
    calls          \* history: the last record_bandwidth_usage call, if any

bwVars == <<bpc, net_max_bw, past_campaigns_considered, past_measurements,
            prediction, calls>>

VARIABLES
    cpc,           \* position of the confinement call
    cgraph,        \* the directed edges of the graph given to confine.py
    cregion,       \* the region to confine, a list of routers
    cegresses,     \* graph.egresses of that graph
    opt_level,     \* the index in CONFINE_OPT of the function called
    confinement,   \* the set the confinement function returned
    kp_info,       \* the keys of keypoint_info in find_confinement_relaxed
    nmc_call,      \* history: the arguments of the outermost call of NMC
    nmc,           \* the arguments of the running call of NMC
    stack,         \* the calls of NMC that wait for the running one
    cut            \* the list a call of NMC returns to its caller

confVars == <<cpc, cgraph, cregion, cegresses, opt_level, confinement,
              kp_info, nmc_call, nmc, stack, cut>>

VARIABLES
    RUNNING,             \* stroboscope.RUNNING
    lpc,                 \* position of the thread that runs execute_campaigns
    next_id,             \* execute_campaigns: next_id
    resolves,            \* whether resolve_region gives regions, so that the
                         \* scheduled queries are made by query.resolve
    qcost,               \* qcost[q] = q.cost
    slot_duration,       \* Requirements.slot_duration, in milliseconds
    past_schedule_prop,  \* Collector.past_schedule_prop, <<>> for None
    is_disabled,         \* is_disabled[q] of the queries of that schedule
    slot_len,            \* start_measurements: slot_len
    activation_count,    \* start_measurements: activation_count
    slot_index,          \* start_measurements: the slot "for slot in schedule"
                         \* is at
    slot_todo,           \* execute_slot: the queries "for q in slot" has left
    bw_usage,            \* Collector.bw_usage
    activation_list,     \* Collector.activation_list
    traffic_slices,      \* Collector.traffic_slices, the packets it holds
    backend,             \* the rule lists RULE_BACKEND.activate was given
    ppc,                 \* position of the listener thread
    pkt,                 \* process_packet: the packet and its rule
    pkt_left,            \* process_packet: left
    received             \* the packets the dissector has received

colVars == <<RUNNING, lpc, next_id, resolves, qcost, slot_duration,
             past_schedule_prop, is_disabled, slot_len, activation_count,
             slot_index, slot_todo, bw_usage, activation_list,
             traffic_slices, backend, ppc, pkt, pkt_left, received>>

\* the variables that neither the graph nor the calls that read it hold
outsideGraph == <<schedVars, bwVars, confVars, colVars>>

\* the variables the scheduler leaves alone
outsideSched == <<kpsVars, netVars, bwVars, confVars, colVars>>

\* the variables the key-point sampling leaves alone
outsideKps == <<outsideGraph, netVars>>

\* the variables the network database calls leave alone
outsideNet == <<outsideGraph, kpc, level, original_path, queue, memo, reject,
                start, new_path, keypoints>>

\* the variables the confinement leaves alone
outsideConf == <<schedVars, kpsVars, netVars, bwVars, colVars>>

\* the variables the bandwidth calls leave alone
outsideBw == <<schedVars, kpsVars, netVars, confVars, colVars>>

\* the variables the collector leaves alone
outsideCol == <<schedVars, kpsVars, netVars, bwVars, confVars>>

vars == <<schedVars, kpsVars, netVars, bwVars, confVars, colVars>>

(***************************************************************************)
(* Generic helpers.                                                        *)
(***************************************************************************)
Max(a, b) == IF a >= b THEN a ELSE b

Min(a, b) == IF a <= b THEN a ELSE b

Range(s) == {s[i] : i \in 1..Len(s)}

RECURSIVE SumOver(_, _)
SumOver(S, f) ==
    IF S = {} THEN 0
    ELSE LET x == CHOOSE y \in S : TRUE IN f[x] + SumOver(S \ {x}, f)

RECURSIVE Repeat(_, _)
Repeat(s, n) == IF n <= 0 THEN <<>> ELSE s \o Repeat(s, n - 1)

\* the key-point sampler has not been called
KpsIdle ==
    /\ kpc = "idle"
    /\ graph = {}
    /\ edge_spt = <<>>
    /\ level = 0
    /\ original_path = <<>>
    /\ queue = <<>>
    /\ memo = {}
    /\ reject = {}
    /\ start = 0
    /\ new_path = <<>>
    /\ keypoints = <<>>

\* the network database has not been called: no link, no tree, no region
NetIdle ==
    /\ metric = <<>>
    /\ egresses = {}
    /\ graph_spt = <<>>
    /\ spt_cost = <<>>
    /\ todo = <<>>
    /\ npc = "idle"
    /\ region = <<>>
    /\ resolved = <<>>

\* no bandwidth was measured and none was asked for
BwIdle ==
    /\ bpc = "idle"
    /\ net_max_bw = 0
    /\ past_campaigns_considered = 0
    /\ past_measurements = <<>>
    /\ prediction = <<>>
    /\ calls = <<>>

\* no region was confined and NMC was not called
ConfIdle ==
    /\ cpc = "idle"
    /\ cgraph = {}
    /\ cregion = <<>>
    /\ cegresses = {}
    /\ opt_level = 0
    /\ confinement = {}
    /\ kp_info = {}
    /\ nmc_call = <<>>
    /\ nmc = <<>>
    /\ stack = <<>>
    /\ cut = <<>>

\* no collector has been built
ColIdle ==
    /\ RUNNING = TRUE
    /\ lpc = "idle"
    /\ next_id = 0
    /\ resolves = FALSE
    /\ qcost = <<>>
    /\ slot_duration = 0
    /\ past_schedule_prop = <<>>
    /\ is_disabled = <<>>
    /\ slot_len = 0
    /\ activation_count = <<>>
    /\ slot_index = 0
    /\ slot_todo = <<>>
    /\ bw_usage = <<>>
    /\ activation_list = <<>>
    /\ traffic_slices = 0
    /\ backend = <<>>
    /\ ppc = "idle"
    /\ pkt = <<>>
    /\ pkt_left = 0
    /\ received = 0

(***************************************************************************)
(* Part I.  Scheduling.                                                    *)
(***************************************************************************)
QueryIds == 1..Len(queries)

SlotCost(slot) == SumOver(slot, queries)

FUNCS == {"first-fit-decreasing", "bin-packing", "approximation",
          "half-approximation", "optimized"}

\* the solver each pipeline starts from
MinSub(f) == IF f \in {"bin-packing", "optimized"} THEN "BINP" ELSE "FFD"

\* the later stages of each pipeline
BMax(f) ==
    CASE f = "approximation" -> <<"REPL">>
      [] f = "half-approximation" -> <<"REPL", "MAXFILL">>
      [] f = "optimized" -> <<"REPL", "MAXFILL">>
      [] OTHER -> <<>>

\* Requirements.derive_slot_count
SlotDuration == Max(max_path_delay, min_slot_duration)

DeriveSlotCount(d) == d \div (SlotDuration + max_router_to_collector_delay)

\* sorted([(q.cost, q) for q in queries]): ascending by cost, then identity
TupleLess(a, b) ==
    queries[a] < queries[b] \/ (queries[a] = queries[b] /\ a < b)

RECURSIVE SortedQueries(_)
SortedQueries(S) ==
    IF S = {} THEN <<>>
    ELSE LET m == CHOOSE x \in S : \A y \in S \ {x} : TupleLess(x, y)
         IN <<m>> \o SortedQueries(S \ {m})

\* first_fit.py: new_bw <= max_bw
FfdFits(bw, cost, max_bw) == bw + cost <= max_bw

\* a scan that keeps the last fitting slot instead of the first, 0 if none
LastFitSlot(ss, cost, max_bw) ==
    IF \E i \in 1..Len(ss) : FfdFits(ss[i].bw, cost, max_bw)
    THEN CHOOSE i \in 1..Len(ss) :
            /\ FfdFits(ss[i].bw, cost, max_bw)
            /\ \A j \in (i + 1)..Len(ss) : ~FfdFits(ss[j].bw, cost, max_bw)
    ELSE 0

\* first_fit.py: "for slot in slots" - the first fitting slot, 0 if none
FirstFitSlot(ss, cost, max_bw) ==
    IF \E i \in 1..Len(ss) : FfdFits(ss[i].bw, cost, max_bw)
    THEN CHOOSE i \in 1..Len(ss) :
            /\ FfdFits(ss[i].bw, cost, max_bw)
            /\ \A j \in 1..(i - 1) : ~FfdFits(ss[j].bw, cost, max_bw)
    ELSE 0

\* a slot-count test that is off by one
FfdTooManyStrict(n, maxs) == n > maxs

\* first_fit.py: len(slots) >= budget.max_slots
FfdTooMany(n, maxs) == n >= maxs

\* first_fit.py: [qlist for qlist, _ in slots]
FfdResult(ss) == [i \in 1..Len(ss) |-> ss[i].qs]

\* replication.py: [slot for slot in schedule if slot]
ReplFilter(schedule) == SelectSeq(schedule, LAMBDA slot : slot # {})

\* a replication count without the lower bound of one copy
ReplWidenUnguarded(maxs, len) == maxs \div len

\* replication.py: max(1, int(self.budget.max_slots) / len(self.schedule))
ReplWiden(maxs, len) == Max(1, maxs \div len)

\* a replication that repeats every slot in place: A A B B for A B A B
RECURSIVE ReplCopiesSlotwise(_, _)
ReplCopiesSlotwise(M, widen) ==
    IF M = <<>> THEN <<>>
    ELSE Repeat(<<Head(M)>>, widen) \o ReplCopiesSlotwise(Tail(M), widen)

\* replication.py: [slot[:] for slot in self.schedule * widen]
ReplCopies(M, widen) == Repeat(M, widen)

\* a padding count that is one slot short
ReplLeftoversShort(maxs, n) == maxs - n - 1

\* replication.py: self.budget.max_slots - len(sched)
ReplLeftovers(maxs, n) == maxs - n

\* replication.py: if leftovers > 0
ReplPads(M, maxs) ==
    ReplLeftovers(maxs, Len(ReplCopies(M, ReplWiden(maxs, Len(M))))) > 0

\* replication.py: ScheduleReplication.solve, for a non-empty self.schedule
ReplSolveResult(M, maxs) ==
    LET copies == ReplCopies(M, ReplWiden(maxs, Len(M)))
        leftovers == ReplLeftovers(maxs, Len(copies))
    IN IF ReplPads(M, maxs)
       THEN copies \o [i \in 1..leftovers |-> {}]
       ELSE copies

\* maxfilling_solver.py: the costs min() ranges over in _build_mapping
PositiveCosts == {queries[q] : q \in {i \in QueryIds : queries[i] > 0}}

\* maxfilling_solver.py: min(budget.using, min(positive costs))
MinUsing ==
    Min(using, CHOOSE c \in PositiveCosts : \A d \in PositiveCosts : c <= d)

\* maxfilling_solver.py: _SlotMapper._build_mapping
RECURSIVE BuildMapping(_, _)
BuildMapping(schedule, idx) ==
    IF idx > Len(schedule) THEN <<>>
    ELSE LET lft == using - SlotCost(schedule[idx])
         IN (IF lft - MinUsing <= 0 THEN <<>>
             ELSE <<[left |-> lft, idx |-> idx]>>)
            \o BuildMapping(schedule, idx + 1)

\* maxfilling_solver.py: _SlotMapper.new_schedule is created empty and no
\* statement ever appends to it
NewSchedule(mp) == <<>>

\* _common.py: Solver.indexes, the (q, s) pairs offered to
\* query_can_belong_in_slot
IndexCandidates(n, T) == {<<q, s>> : q \in 0..(n - 1), s \in 0..(T - 1)}

\* a pipeline without the try block: the exception reaches the caller
PipelineNoCatch(prev) == [pc |-> "NoSchedule", sched |-> prev]

\* scheduling_pipeline.py: "except NoSchedule: break", then "return sched"
PipelineCatch(prev) == [pc |-> "returned", sched |-> prev]

\* binp_solver.py: the assignments satisfying constraints C1-C3 and the
\* tie-breaking constraint with k used slots
BinpFeasible(k) ==
    {a \in [QueryIds -> 1..k] :
        \A s \in 1..k :
            SumOver({q \in QueryIds : a[q] = s}, queries) <= using}

\* binp_solver.py: the objective min[ sum_s Y_s ], 0 queries need 0 slots
BinpOptimum(T) ==
    IF \E k \in 0..T : BinpFeasible(k) # {}
    THEN CHOOSE k \in 0..T :
            /\ BinpFeasible(k) # {}
            /\ \A j \in 0..(k - 1) : BinpFeasible(j) = {}
    ELSE -1

\* _common.py: Solver.extract_solution
BinpExtract(a, T) ==
    ReplFilter([s \in 1..T |-> {q \in QueryIds : a[q] = s}])

\* maxfilling_solver.py: MaxFilling.extract_solution for a solution R
MaxFillExtract(schedule, R, mp) ==
    [i \in 1..Len(schedule) |->
        schedule[i] \cup {r[1] + 1 : r \in {x \in R : mp[x[2] + 1].idx = i}}]

(***************************************************************************)
(* Actions of the scheduling call.                                         *)
(***************************************************************************)
\* Requirements.what: derive_slot_count, then budget(); "//" on floats gives
\* a float slot count
DeriveSlotCountStep ==
    /\ pc = "what"
    /\ max_slots' = DeriveSlotCount(during)
    /\ float_slots' = TRUE
    /\ pc' = "when"
    /\ UNCHANGED <<queries, using, during, function, left, slots, sched,
                   stage, replSchedule, mapping, max_timeslots, done, failed>>
    /\ UNCHANGED outsideSched

\* balance_and_schedule: build the solver; every pipeline starts by running
\* find_first_fit_estimation (lines 27-30), in BINPSolver.__init__ or in
\* FirstFitSolver.solve
BalanceAndSchedule ==
    /\ pc = "when"
    /\ slots' = <<[qs |-> {}, bw |-> 0]>>
    /\ left' = SortedQueries(QueryIds)
    /\ pc' = "ffd"
    /\ UNCHANGED <<queries, using, during, max_slots, float_slots,
                   function, sched, stage,
                   replSchedule, mapping, max_timeslots, done, failed>>
    /\ UNCHANGED outsideSched

\* find_first_fit_estimation: one iteration of "while left"
FfdIter ==
    /\ pc = "ffd"
    /\ left # <<>>
    /\ LET q == left[Len(left)]
           cost == queries[q]
           i == FirstFitSlot(slots, cost, using)
       IN /\ left' = SubSeq(left, 1, Len(left) - 1)
          /\ IF i # 0
             THEN /\ slots' = [slots EXCEPT ![i] =
                                 [qs |-> @.qs \cup {q}, bw |-> @.bw + cost]]
                  /\ UNCHANGED <<pc, failed>>
             ELSE IF FfdTooMany(Len(slots), max_slots)
                  THEN /\ pc' = "NoSchedule"
                       /\ failed' = MinSub(function)
                       /\ UNCHANGED slots
                  ELSE /\ slots' = Append(slots, [qs |-> {q}, bw |-> cost])
                       /\ UNCHANGED <<pc, failed>>
    /\ UNCHANGED <<queries, using, during, max_slots, float_slots,
                   function, sched, stage,
                   replSchedule, mapping, max_timeslots, done>>
    /\ UNCHANGED outsideSched

\* find_first_fit_estimation returns; FirstFitSolver.solve hands the result
\* to its caller, BINPSolver.__init__ keeps its length as the slot bound
FfdReturn ==
    /\ pc = "ffd"
    /\ left = <<>>
    /\ IF MinSub(function) = "BINP"
       THEN /\ max_timeslots' = Len(FfdResult(slots))
            /\ pc' = "binp"
            /\ UNCHANGED <<sched, done, stage>>
       ELSE /\ sched' = FfdResult(slots)
            /\ done' = Append(done, FfdResult(slots))
            /\ stage' = 1
            /\ pc' = IF BMax(function) = <<>> THEN "returned" ELSE "stage"
            /\ UNCHANGED max_timeslots
    /\ UNCHANGED <<queries, using, during, max_slots, float_slots,
                   function, left, slots,
                   replSchedule, mapping, failed>>
    /\ UNCHANGED outsideSched

\* BINPSolver.formulate and Solver.solve: the solver reports OPTIMAL with an
\* optimal assignment, or another status (infeasible, time limit)
BinpSolve ==
    /\ pc = "binp"
    /\ \E optimal \in BOOLEAN :
         IF optimal /\ BinpOptimum(max_timeslots) >= 0
         THEN \E a \in BinpFeasible(BinpOptimum(max_timeslots)) :
                 LET res == BinpExtract(a, max_timeslots)
                 IN /\ sched' = res
                    /\ done' = Append(done, res)
                    /\ stage' = 1
                    /\ pc' = IF BMax(function) = <<>> THEN "returned"
                             ELSE "stage"
                    /\ UNCHANGED failed
         ELSE /\ pc' = "NoSchedule"
              /\ failed' = "BINP"
              /\ UNCHANGED <<sched, done, stage>>
    /\ UNCHANGED <<queries, using, during, max_slots, float_slots,
                   function, left, slots,
                   replSchedule, mapping, max_timeslots>>
    /\ UNCHANGED outsideSched

\* _AbstractPipeline.solve: "for solver in self.bmax" is exhausted
PipelineReturn ==
    /\ pc = "stage"
    /\ stage > Len(BMax(function))
    /\ pc' = "returned"
    /\ UNCHANGED <<queries, using, during, max_slots, float_slots,
                   function, left, slots,
                   sched, stage, replSchedule, mapping, max_timeslots, done,
                   failed>>
    /\ UNCHANGED outsideSched

\* ScheduleReplication.__init__ (and its empty formulate)
ReplNew ==
    /\ pc = "stage"
    /\ stage <= Len(BMax(function))
    /\ BMax(function)[stage] = "REPL"
    /\ replSchedule' = ReplFilter(sched)
    /\ pc' = "repl"
    /\ UNCHANGED <<queries, using, during, max_slots, float_slots,
                   function, left, slots,
                   sched, stage, mapping, max_timeslots, done, failed>>
    /\ UNCHANGED outsideSched

\* ScheduleReplication.solve; the division fails on an empty schedule, and
\* xrange(leftovers) rejects the float a float max_slots makes of leftovers
ReplSolve ==
    /\ pc = "repl"
    /\ IF Len(replSchedule) = 0
       THEN /\ pc' = "ZeroDivisionError"
            /\ UNCHANGED <<sched, done, stage>>
       ELSE IF ReplPads(replSchedule, max_slots) /\ float_slots
       THEN /\ pc' = "TypeError"
            /\ UNCHANGED <<sched, done, stage>>
       ELSE /\ sched' = ReplSolveResult(replSchedule, max_slots)
            /\ done' = Append(done, ReplSolveResult(replSchedule, max_slots))
            /\ stage' = stage + 1
            /\ pc' = "stage"
    /\ UNCHANGED <<queries, using, during, max_slots, float_slots,
                   function, left, slots,
                   replSchedule, mapping, max_timeslots, failed>>
    /\ UNCHANGED outsideSched

\* MaxFilling.__init__: _SlotMapper, then Solver.__init__; min() of an empty
\* list raises ValueError
MaxFillNew ==
    /\ pc = "stage"
    /\ stage <= Len(BMax(function))
    /\ BMax(function)[stage] = "MAXFILL"
    /\ IF PositiveCosts = {}
       THEN /\ pc' = "ValueError"
            /\ UNCHANGED <<mapping, max_timeslots>>
       ELSE /\ mapping' = BuildMapping(sched, 1)
            /\ max_timeslots' = Len(NewSchedule(BuildMapping(sched, 1)))
            /\ pc' = "mf_formulate"
    /\ UNCHANGED <<queries, using, during, max_slots, float_slots,
                   function, left, slots,
                   sched, stage, replSchedule, done, failed>>
    /\ UNCHANGED outsideSched

\* MaxFilling.formulate: Solver.formulate evaluates query_can_belong_in_slot
\* on every candidate index, where q is an integer and q.cost fails
MaxFillFormulate ==
    /\ pc = "mf_formulate"
    /\ pc' = IF IndexCandidates(Len(queries), max_timeslots) # {}
             THEN "AttributeError" ELSE "mf_solve"
    /\ UNCHANGED <<queries, using, during, max_slots, float_slots,
                   function, left, slots,
                   sched, stage, replSchedule, mapping, max_timeslots, done,
                   failed>>
    /\ UNCHANGED outsideSched

\* Solver.solve inside the try block of _AbstractPipeline.solve: with no
\* index the only solution is R = {}
MaxFillSolve ==
    /\ pc = "mf_solve"
    /\ \E optimal \in BOOLEAN :
         IF optimal
         THEN LET res == MaxFillExtract(sched, {}, mapping)
                 IN /\ sched' = res
                    /\ done' = Append(done, res)
                    /\ stage' = stage + 1
                    /\ pc' = "stage"
                    /\ UNCHANGED failed
         ELSE /\ pc' = PipelineCatch(sched).pc
              /\ sched' = PipelineCatch(sched).sched
              /\ failed' = "MAXFILL"
              /\ UNCHANGED <<done, stage>>
    /\ UNCHANGED <<queries, using, during, max_slots, float_slots,
                   function, left, slots,
                   replSchedule, mapping, max_timeslots>>
    /\ UNCHANGED outsideSched

(***************************************************************************)
(* Specifications of Part I.                                               *)
(***************************************************************************)
SlotPeriod == SlotDuration + max_router_to_collector_delay

\* time budgets on both sides of every slot-count boundary
DuringChoices == {s * SlotPeriod + r : s \in 0..MaxSlots,
                                       r \in {0, SlotPeriod - 1}}

CostVectors == UNION {[1..n -> 0..MaxCost] : n \in 0..MaxQueries}

\* A Requirements object about to be compiled, and a direct call of
\* balance_and_schedule with any pipeline name.
InitSched ==
    /\ KpsIdle
    /\ NetIdle
    /\ BwIdle
    /\ ConfIdle
    /\ ColIdle
    /\ queries \in CostVectors
    /\ using \in 0..MaxUsing
    /\ float_slots = FALSE
    /\ \/ /\ pc = "what"
          /\ during \in DuringChoices
          /\ max_slots = 0
       \/ /\ pc = "when"
          /\ during = 0
          /\ max_slots \in 0..MaxSlots
    /\ function \in FUNCS
    /\ left = <<>>
    /\ slots = <<>>
    /\ sched = <<>>
    /\ stage = 0
    /\ replSchedule = <<>>
    /\ mapping = <<>>
    /\ max_timeslots = 0
    /\ done = <<>>
    /\ failed = "none"

NextSched ==
    \/ DeriveSlotCountStep
    \/ BalanceAndSchedule
    \/ FfdIter
    \/ FfdReturn
    \/ BinpSolve
    \/ PipelineReturn
    \/ ReplNew
    \/ ReplSolve
    \/ MaxFillNew
    \/ MaxFillFormulate
    \/ MaxFillSolve

SpecSched == InitSched /\ [][NextSched]_vars

\* the slots a caller can hand to ScheduleReplication: any list of at most
\* MaxSchedLen slots, each a (possibly empty) set of queries
SlotChoices == SUBSET (1..MaxQueries)

ScheduleChoices == UNION {[1..n -> SlotChoices] : n \in 0..MaxSchedLen}

\* The replication stage of a pipeline, started on any schedule and budget.
InitRepl ==
    /\ KpsIdle
    /\ NetIdle
    /\ BwIdle
    /\ ConfIdle
    /\ ColIdle
    /\ pc = "stage"
    /\ queries = [i \in 1..MaxQueries |-> 1]
    /\ using = MaxUsing
    /\ during = 0
    /\ max_slots \in 0..MaxSlots
    /\ float_slots \in BOOLEAN
    /\ function = "approximation"
    /\ left = <<>>
    /\ slots = <<>>
    /\ sched \in ScheduleChoices
    /\ stage = 1
    /\ replSchedule = <<>>
    /\ mapping = <<>>
    /\ max_timeslots = 0
    /\ done = <<sched>>
    /\ failed = "none"

NextRepl ==
    \/ ReplNew
    \/ ReplSolve
    \/ PipelineReturn

SpecRepl == InitRepl /\ [][NextRepl]_vars

(***************************************************************************)
(* Properties of Part I.                                                   *)
(***************************************************************************)
\* the slots of schedule sch that contain query q
SlotsOf(sch, q) == {i \in 1..Len(sch) : q \in sch[i]}

\* C1: every slot of a schedule returned by find_first_fit_estimation, and
\* by the pipelines built on it, has a total query cost <= budget.using,
\* whatever the cost of a single query.
C1_SlotCostWithinBudget ==
    pc = "returned" => \A i \in 1..Len(sched) : SlotCost(sched[i]) <= using

\* C2: whenever balance_and_schedule returns a schedule, every input query
\* is a member of at least one of its slots, in every pipeline.
C2_EveryQueryScheduled ==
    pc = "returned" => \A q \in QueryIds : SlotsOf(sched, q) # {}

\* a half-approximation pipeline returned after its three stages ran on
\* queries that needed two slots
C2_Witness ==
    /\ pc = "returned"
    /\ function = "half-approximation"
    /\ Len(done) = 3
    /\ Len(queries) >= 2
    /\ Len(replSchedule) = 2

\* the query find_first_fit_estimation is about to pop
FfdNextQuery == left[Len(left)]

\* no open slot has room for query q
FfdNoRoom(q) == \A i \in 1..Len(slots) : slots[i].bw + queries[q] > using

\* C3: with max_slots >= 1, find_first_fit_estimation never holds (and so
\* never returns) more than max_slots slots, and it raises NoSchedule
\* exactly when a query fits in no open slot while max_slots slots are
\* already open.
C3_FfdSlotBound ==
    /\ [](max_slots >= 1 => Len(slots) <= max_slots)
    /\ [][(pc = "ffd" /\ left # <<>> /\ max_slots >= 1)
            => ((pc' = "NoSchedule")
                  <=> (FfdNoRoom(FfdNextQuery) /\ Len(slots) >= max_slots))]_vars

\* find_first_fit_estimation raised with every allowed slot open
C3_Witness ==
    /\ pc = "NoSchedule"
    /\ failed = "FFD"
    /\ max_slots >= 2
    /\ Len(slots) = max_slots

\* the open slots in which query q fits within the budget
FfdRoom(q) == {i \in 1..Len(slots) : slots[i].bw + queries[q] <= using}

\* C22: find_first_fit_estimation takes the queries in non-increasing order
\* of cost; it puts each query into the open slot of lowest index whose
\* load plus the cost of the query is at most budget.using, and it opens a
\* new slot (or raises) only when the query fits in no open slot.
C22_FirstFitDecreasing ==
    [][(pc = "ffd" /\ left # <<>>) =>
          /\ \A j \in 1..Len(left) : queries[left[j]] <= queries[FfdNextQuery]
          /\ FfdRoom(FfdNextQuery) # {} =>
                \E i \in FfdRoom(FfdNextQuery) :
                    /\ \A j \in FfdRoom(FfdNextQuery) : i <= j
                    /\ pc' = "ffd"
                    /\ Len(slots') = Len(slots)
                    /\ slots'[i].qs = slots[i].qs \cup {FfdNextQuery}
                    /\ slots'[i].bw = slots[i].bw + queries[FfdNextQuery]
                    /\ \A j \in 1..Len(slots) : j # i => slots'[j] = slots[j]
          /\ Len(slots') > Len(slots) =>
                /\ FfdRoom(FfdNextQuery) = {}
                /\ slots'[Len(slots')].qs = {FfdNextQuery}
                /\ SubSeq(slots', 1, Len(slots)) = slots]_vars

\* a cheaper query joined the first slot after a second slot had been opened
C22_Witness ==
    /\ pc = "ffd"
    /\ Len(slots) >= 2
    /\ Cardinality(slots[1].qs) >= 2
    /\ \E a \in slots[1].qs : \E b \in slots[2].qs : queries[a] < queries[b]

\* a slot of the schedule has more bandwidth left than the cost of a
\* query of positive cost that is not in that slot
SpareRoom ==
    \E i \in 1..Len(sched) : \E q \in QueryIds \ sched[i] :
        /\ queries[q] > 0
        /\ queries[q] < using - SlotCost(sched[i])

\* C26: in the half-approximation and optimized pipelines, whenever a slot
\* of the replicated schedule has more bandwidth left than the cost of a
\* positive-cost query that is not in that slot, the schedule the
\* MaxFilling stage returns has a slot with a query it did not hold before.
C26_MaxFillingFillsSpareRoom ==
    [][(/\ pc = "mf_solve"
        /\ function \in {"half-approximation", "optimized"}
        /\ SpareRoom
        /\ pc' = "stage")
          => \E i \in 1..Len(sched) : ~(sched'[i] \subseteq sched[i])]_vars

\* C4: when the time budget admits no slot (during < slot_duration +
\* inter_slot_delay), scheduling a non-empty query list returns no schedule.
C4_NoSlotNoSchedule ==
    (pc # "what" /\ float_slots /\ during < SlotPeriod /\ queries # <<>>)
        => pc # "returned"

\* C5: a NoSchedule raised by a non-initial stage makes solve() return the
\* schedule of the last stage that succeeded; a NoSchedule raised by the
\* initial stage reaches the caller.
C5_StageFailureHandled ==
    failed # "none" =>
        IF failed = MinSub(function)
        THEN pc = "NoSchedule"
        ELSE /\ pc = "returned"
             /\ done # <<>>
             /\ sched = done[Len(done)]

\* the optimized pipeline returned the replicated schedule after
\* max-filling failed
C5_Witness ==
    /\ pc = "returned"
    /\ failed = "MAXFILL"
    /\ function = "optimized"
    /\ Len(done) = 2
    /\ sched # <<>>

\* the number of copies ScheduleReplication makes of a non-empty schedule
Copies(M, maxs) == Max(1, maxs \div Len(M))

\* the slot of M that index i (from 1) of a replicated schedule repeats
ModSlot(M, i) == M[((i - 1) % Len(M)) + 1]

\* C6 as claimed: every slot i of a schedule returned by
\* ScheduleReplication.solve has the contents of M[i mod |M|].
C6_AllSlotsModulo ==
    pc = "returned" =>
        \A i \in 1..Len(sched) : sched[i] = ModSlot(replSchedule, i)

\* C6 amended: every slot i of the returned schedule that lies within the
\* copies of M has the contents of M[i mod |M|]; the slots after the copies
\* are empty.
C6_CopiesModulo ==
    pc = "returned" =>
        \A i \in 1..Len(sched) :
            IF i <= Copies(replSchedule, max_slots) * Len(replSchedule)
            THEN sched[i] = ModSlot(replSchedule, i)
            ELSE sched[i] = {}

\* two different slots were replicated twice
C6_Witness ==
    /\ pc = "returned"
    /\ Len(replSchedule) = 2
    /\ replSchedule[1] # replSchedule[2]
    /\ Len(sched) = 4

Routers == 1..NumRouters

\* g[v]: the successors of v
Succ(g, v) == {w \in Routers : <<v, w>> \in g}

\* a dictionary with one more (or one replaced) entry
Put(f, k, val) ==
    [x \in DOMAIN f \cup {k} |-> IF x = k THEN val ELSE f[x]]

\* the members of a set of numbers, in increasing order
RECURSIVE Ascending(_)
Ascending(S) ==
    IF S = {} THEN <<>>
    ELSE LET m == CHOOSE x \in S : \A y \in S : x <= y
         IN <<m>> \o Ascending(S \ {m})

\* graph.py: extend_paths_list
ExtendPathsList(paths, n) == [i \in 1..Len(paths) |-> Append(paths[i], n)]

\* graph.py: heapq.heappop on (distance, count, node) tuples
HeapMin(fringe) ==
    CHOOSE t \in fringe :
        \A u \in fringe : t[1] < u[1] \/ (t[1] = u[1] /\ t[2] <= u[2])

\* a test that only looks at the nodes whose distance is final
ContradictoryFinal(dist, w, vw_dist) ==
    w \in DOMAIN dist /\ vw_dist < dist[w]

\* graph.py: _spt_from_src, "if vw_dist < dist.get(w, 0)"
Contradictory(dist, w, vw_dist) ==
    vw_dist < (IF w \in DOMAIN dist THEN dist[w] ELSE 0)

\* graph.py: _spt_from_src, the body of "for w, edgedata in g[v].iteritems()"
\* for the successors ws of v; cost[e] is _get_w(edgedata)
RECURSIVE SptRelax(_, _, _, _, _)
SptRelax(st, cost, v, d, ws) ==
    IF ws = <<>> \/ st.err THEN st
    ELSE LET w == Head(ws)
             vw_dist == d + cost[<<v, w>>]
             ext == ExtendPathsList(st.paths[v], w)
             next ==
                 IF Contradictory(st.dist, w, vw_dist)
                 THEN [st EXCEPT !.err = TRUE]
                 ELSE IF w \notin DOMAIN st.seen \/ vw_dist < st.seen[w]
                 THEN [st EXCEPT !.seen = Put(@, w, vw_dist),
                                 !.fringe = @ \cup {<<vw_dist, st.c, w>>},
                                 !.c = @ + 1,
                                 !.paths = Put(@, w, ext)]
                 ELSE IF vw_dist = st.seen[w]
                 THEN [st EXCEPT !.paths = Put(@, w, @[w] \o ext)]
                 ELSE st
         IN SptRelax(next, cost, v, d, Tail(ws))

\* graph.py: _spt_from_src, the loop "while fringe"
RECURSIVE SptLoop(_, _, _)
SptLoop(st, g, cost) ==
    IF st.fringe = {} \/ st.err THEN st
    ELSE LET t == HeapMin(st.fringe)
             d == t[1]
             v == t[3]
             popped == [st EXCEPT !.fringe = @ \ {t}]
         IN IF v \in DOMAIN st.dist
            THEN SptLoop(popped, g, cost)
            ELSE SptLoop(SptRelax([popped EXCEPT !.dist = Put(@, v, d)],
                                  cost, v, d, Ascending(Succ(g, v))),
                         g, cost)

\* a tree that counts the hops whatever the costs are
SptFromSrcByHops(g, source, cost) ==
    SptLoop([dist |-> <<>>,
             paths |-> Put(<<>>, source, <<<<source>>>>),
             seen |-> Put(<<>>, source, 0),
             fringe |-> {<<0, 0, source>>},
             c |-> 1,
             err |-> FALSE], g, [e \in DOMAIN cost |-> 1])

\* graph.py: _spt_from_src
SptFromSrc(g, source, cost) ==
    SptLoop([dist |-> <<>>,
             paths |-> Put(<<>>, source, <<<<source>>>>),
             seen |-> Put(<<>>, source, 0),
             fringe |-> {<<0, 0, source>>},
             c |-> 1,
             err |-> FALSE], g, cost)

\* graph.py: get_spt, the dictionary of paths
GetSpt(g, cost) == [n \in Routers |-> SptFromSrc(g, n, cost).paths]

\* graph.py: get_spt, the dictionary of distances
GetSptCost(g, cost) == [n \in Routers |-> SptFromSrc(g, n, cost).dist]

\* network_database.py: get_spt(self, None) counts every edge for 1
EdgeCount(g) == [e \in g |-> 1]

\* algorithms/__init__.py: check_graph_supports_path does not raise
GraphSupportsPath(g, path) ==
    \A i \in 1..(Len(path) - 1) : <<path[i], path[i + 1]>> \in g

\* key_points.py: _path_endpoints
PathEndpoints(p) == <<p[1], p[Len(p)]>>

\* key_points.py: _all_kp_possible, the decompositions the generator yields
RECURSIVE AllKpPossible(_)
AllKpPossible(l) ==
    IF Len(l) < 2 THEN {<<>>}
    ELSE UNION {{<<SubSeq(l, 1, i)>> \o p :
                    p \in AllKpPossible(SubSeq(l, i, Len(l)))} :
                i \in 2..Len(l)}

\* Python's "<" on two lists of routers
RECURSIVE ListLess(_, _)
ListLess(a, b) ==
    IF b = <<>> THEN FALSE
    ELSE IF a = <<>> THEN TRUE
    ELSE IF Head(a) # Head(b) THEN Head(a) < Head(b)
    ELSE ListLess(Tail(a), Tail(b))

\* Python's "<" on two lists of lists of routers
RECURSIVE KpSetLess(_, _)
KpSetLess(a, b) ==
    IF b = <<>> THEN FALSE
    ELSE IF a = <<>> THEN TRUE
    ELSE IF Head(a) # Head(b) THEN ListLess(Head(a), Head(b))
    ELSE KpSetLess(Tail(a), Tail(b))

\* an order that compares the decompositions and not their lengths
KpTupleLessNoLen(a, b) == KpSetLess(a, b)

\* Python's "<" on the tuples (len(kpset), kpset)
KpTupleLess(a, b) == Len(a) < Len(b) \/ (Len(a) = Len(b) /\ KpSetLess(a, b))

\* key_points.py: q.sort(reverse=True)
RECURSIVE SortReverse(_)
SortReverse(S) ==
    IF S = {} THEN <<>>
    ELSE LET m == CHOOSE x \in S : \A y \in S \ {x} : KpTupleLess(y, x)
         IN <<m>> \o SortReverse(S \ {m})

\* key_points.py: _paths_for_len, the paths counted below the stack frame
\* that holds visited; l - len(visited) decides whether the path grows
RECURSIVE CountPaths(_, _, _, _)
CountPaths(g, visited, dst, l) ==
    LET children == Succ(g, visited[Len(visited)])
    IN IF l - Len(visited) > 0
       THEN LET grow == {c \in children : c \notin Range(visited) /\ c # dst}
                below == [c \in grow |->
                             CountPaths(g, Append(visited, c), dst, l)]
            IN SumOver(grow, below)
       ELSE IF dst \in children THEN 1 ELSE 0

\* a test that lets a second path through
PathsForLenTwo(g, src, dst, l) == CountPaths(g, <<src>>, dst, l) < 3

\* key_points.py: _paths_for_len returns cnt < 2
PathsForLen(g, src, dst, l) == CountPaths(g, <<src>>, dst, l) < 2

\* key_points.py: find_key_points, the loop "for p in possible_kp"; the
\* result tells whether the loop completed, with the updated memo and reject
RECURSIVE KpScan(_, _, _, _)
KpScan(g, possible_kp, mem, rej) ==
    IF possible_kp = <<>> THEN [ok |-> TRUE, memo |-> mem, reject |-> rej]
    ELSE LET p == Head(possible_kp)
             endp == PathEndpoints(p)
         IN IF Len(p) <= 2 \/ endp \in mem
            THEN KpScan(g, Tail(possible_kp), mem, rej)
            ELSE IF endp \in rej
            THEN [ok |-> FALSE, memo |-> mem, reject |-> rej]
            ELSE IF PathsForLen(g, endp[1], endp[2], Len(p) - 1)
            THEN KpScan(g, Tail(possible_kp), mem \cup {endp}, rej)
            ELSE [ok |-> FALSE, memo |-> mem, reject |-> rej \cup {endp}]

\* Python's list.index, counted from 0
Index(l, x) ==
    (CHOOSE i \in 1..Len(l) : l[i] = x /\ \A j \in 1..(i - 1) : l[j] # x)
        - 1

\* key_points.py: _extract_keypoints
ExtractKeypoints(paths, path) ==
    [i \in 1..Len(paths) |->
        <<PathEndpoints(paths[i])[1],
          Index(path, PathEndpoints(paths[i])[2])
            - Index(path, PathEndpoints(paths[i])[1])>>]
    \o <<<<path[Len(path)], 0>>>>

\* key_points.py: _precond, the solution for a path that is too short
DefaultSolution(path) == [i \in 1..Len(path) |-> <<path[i], 1>>]

\* key_points.py: _segment_path, p[start:end + 1] with Python indices
Slice(p, from, to) == SubSeq(p, from + 1, to + 1)

\* key_points.py: _segment_path, the loop "while end < max_len"
RECURSIVE SegmentLoop(_, _, _, _, _)
SegmentLoop(p, from, spt, max_len, end) ==
    IF end < max_len
    THEN LET ps == spt[p[from + 1]][p[end + 1]]
         IN IF Len(ps) > 1 THEN end
            ELSE IF ps[1] # Slice(p, from, end) THEN end
            ELSE SegmentLoop(p, from, spt, max_len, end + 1)
    ELSE end

\* a segmentation that takes two edges for granted
SegmentPathTwoEdges(p, from, spt, max_len) ==
    SegmentLoop(p, from, spt, max_len, from + 3)

\* key_points.py: _segment_path
SegmentPath(p, from, spt, max_len) ==
    SegmentLoop(p, from, spt, max_len, from + 2)

(***************************************************************************)
(* Actions of the key-point sampling call.                                 *)
(***************************************************************************)
\* NetGraph.build_spt, as every user of the graph calls it once the links
\* are registered
BuildSpt ==
    /\ kpc = "build"
    /\ graph_spt' = GetSpt(graph, metric)
    /\ spt_cost' = GetSptCost(graph, metric)
    /\ edge_spt' = GetSpt(graph, EdgeCount(graph))
    /\ kpc' = "call"
    /\ UNCHANGED <<graph, level, original_path, queue, memo, reject, start,
                   new_path, keypoints>>
    /\ UNCHANGED <<outsideGraph, metric, egresses, todo, npc, region, resolved>>

\* KPS_OPT[level](graph, path) up to its loop: _precond, then the initial
\* values of the algorithm
KpsCall ==
    /\ kpc = "call"
    /\ IF Len(original_path) <= 2
       THEN /\ keypoints' = DefaultSolution(original_path)
            /\ kpc' = "returned"
            /\ UNCHANGED <<queue, start>>
       ELSE IF ~GraphSupportsPath(graph, original_path)
       THEN /\ kpc' = "MissingEdge"
            /\ UNCHANGED <<queue, start, keypoints>>
       ELSE IF level = 0
       THEN /\ start' = 0
            /\ kpc' = "segment"
            /\ UNCHANGED <<queue, keypoints>>
       ELSE /\ queue' = SortReverse(AllKpPossible(original_path))
            /\ kpc' = "try"
            /\ UNCHANGED <<start, keypoints>>
    /\ UNCHANGED <<graph, edge_spt, level, original_path, memo, reject,
                   new_path>>
    /\ UNCHANGED outsideKps

\* find_key_points_segment_spt: one iteration of "while start < length"
SegmentStep ==
    /\ kpc = "segment"
    /\ start < Len(original_path)
    /\ LET segment_end == SegmentPath(original_path, start, edge_spt,
                                      Len(original_path)) - 1
       IN /\ new_path' = Append(new_path, <<original_path[start + 1],
                                            segment_end - start>>)
          /\ start' = segment_end
    /\ UNCHANGED <<kpc, graph, edge_spt, level, original_path, queue, memo,
                   reject, keypoints>>
    /\ UNCHANGED outsideKps

\* find_key_points_segment_spt returns new_path
SegmentReturn ==
    /\ kpc = "segment"
    /\ start >= Len(original_path)
    /\ keypoints' = new_path
    /\ kpc' = "returned"
    /\ UNCHANGED <<graph, edge_spt, level, original_path, queue, memo, reject,
                   start, new_path>>
    /\ UNCHANGED outsideKps

\* find_key_points: the test of "while q" and one iteration of the loop, or
\* the raise that follows the loop
KpTry ==
    /\ kpc = "try"
    /\ IF queue = <<>>
       THEN /\ kpc' = "RuntimeError"
            /\ UNCHANGED <<queue, memo, reject, keypoints>>
       ELSE LET possible_kp == queue[Len(queue)]
                scan == KpScan(graph, possible_kp, memo, reject)
            IN /\ queue' = SubSeq(queue, 1, Len(queue) - 1)
               /\ memo' = scan.memo
               /\ reject' = scan.reject
               /\ IF scan.ok
                  THEN /\ keypoints' =
                              ExtractKeypoints(possible_kp, original_path)
                       /\ kpc' = "returned"
                  ELSE UNCHANGED <<kpc, keypoints>>
    /\ UNCHANGED <<graph, edge_spt, level, original_path, start, new_path>>
    /\ UNCHANGED outsideKps

(***************************************************************************)
(* Specification of Part II.                                               *)
(***************************************************************************)
\* the scheduler has not been called
SchedIdle ==
    /\ pc = "idle"
    /\ queries = <<>>
    /\ using = 0
    /\ during = 0
    /\ max_slots = 0
    /\ float_slots = FALSE
    /\ function = "approximation"
    /\ left = <<>>
    /\ slots = <<>>
    /\ sched = <<>>
    /\ stage = 0
    /\ replSchedule = <<>>
    /\ mapping = <<>>
    /\ max_timeslots = 0
    /\ done = <<>>
    /\ failed = "none"

\* the links register_link can add between the routers
Links == {l \in SUBSET Routers : Cardinality(l) = 2}

\* register_link adds both directions of a link
EdgesOf(links) == {e \in Routers \X Routers : {e[1], e[2]} \in links}

\* The paths to sample.  Router names are interchangeable: the graphs of
\* InitKps are closed under renaming, the shortest paths the segmentation
\* reads do not depend on the order of g[v], and the decompositions that
\* q.sort compares are lists of prefixes of one list, which Python orders by
\* length whatever the names.  So the routers of a path are numbered in the
\* order the path first visits them.
PathChoices ==
    {p \in UNION {[1..n -> Routers] : n \in 1..MaxPathLen} :
        /\ p[1] = 1
        /\ \A i \in 2..Len(p) : \E j \in 1..(i - 1) : p[i] <= p[j] + 1}

\* Any graph built with register_link, any path and either algorithm.
InitKps ==
    /\ SchedIdle
    /\ BwIdle
    /\ ConfIdle
    /\ ColIdle
    /\ kpc = "build"
    /\ graph \in {EdgesOf(links) : links \in SUBSET Links}
    /\ metric = [e \in graph |-> 1]
    /\ egresses = {}
    /\ graph_spt = <<>>
    /\ spt_cost = <<>>
    /\ todo = <<>>
    /\ npc = "idle"
    /\ region = <<>>
    /\ resolved = <<>>
    /\ edge_spt = <<>>
    /\ level \in {0, 1}
    /\ original_path \in PathChoices
    /\ queue = <<>>
    /\ memo = {}
    /\ reject = {}
    /\ start = 0
    /\ new_path = <<>>
    /\ keypoints = <<>>

NextKps ==
    \/ BuildSpt
    \/ KpsCall
    \/ SegmentStep
    \/ SegmentReturn
    \/ KpTry

SpecKps == InitKps /\ [][NextKps]_vars

(***************************************************************************)
(* Properties of Part II.                                                  *)
(***************************************************************************)
\* the router names of a list of keypoints
Names(kp) == [j \in 1..Len(kp) |-> kp[j][1]]

\* the gaps of a list of keypoints
Gaps(kp) == [j \in 1..Len(kp) |-> kp[j][2]]

\* the strictly increasing lists of k positions of path that start at its
\* first router and end at its last one
EndToEnd(path, k) ==
    {Ascending(S) : S \in {T \in SUBSET (1..Len(path)) :
                              /\ Cardinality(T) = k
                              /\ 1 \in T
                              /\ Len(path) \in T}}

Simple(path) ==
    \A i, j \in 1..Len(path) : path[i] = path[j] => i = j

\* the simple paths of graph g that lead from u to v in exactly n edges
SimplePaths(g, u, v, n) ==
    {p \in [1..(n + 1) -> Routers] :
        /\ p[1] = u
        /\ p[n + 1] = v
        /\ Simple(p)
        /\ GraphSupportsPath(g, p)}

\* C8: for a path the graph supports, the names of the keypoints either
\* algorithm returns are the routers at strictly increasing positions of the
\* path, the first position and the last one included.
C8_SubsequenceKeepsEndpoints ==
    (kpc = "returned" /\ GraphSupportsPath(graph, original_path)) =>
        \E at \in EndToEnd(original_path, Len(keypoints)) :
            \A j \in 1..Len(keypoints) :
                keypoints[j][1] = original_path[at[j]]

\* the segmentation dropped a router of a path of the graph
C8_Witness ==
    /\ kpc = "returned"
    /\ level = 0
    /\ GraphSupportsPath(graph, original_path)
    /\ Len(original_path) >= 3
    /\ Len(keypoints) < Len(original_path)
    /\ keypoints[Len(keypoints)][1] = original_path[Len(original_path)]

\* C9 as claimed: the list find_key_points returns for a path of any length
\* starts with path[0], ends with path[-1], every gap is the number of hops
\* of the path from its keypoint to the next one, and the gaps add up to
\* len(path) - 1.
C9_GapsCountHops ==
    (kpc = "returned" /\ level = 1) =>
        /\ keypoints[1][1] = original_path[1]
        /\ keypoints[Len(keypoints)][1] = original_path[Len(original_path)]
        /\ \E at \in EndToEnd(original_path, Len(keypoints)) :
              /\ \A j \in 1..Len(keypoints) :
                    keypoints[j][1] = original_path[at[j]]
              /\ \A j \in 1..(Len(keypoints) - 1) :
                    keypoints[j][2] = at[j + 1] - at[j]
        /\ SumOver(1..Len(keypoints), Gaps(keypoints))
              = Len(original_path) - 1

\* the position of a router in a simple path
Position(path, x) == CHOOSE i \in 1..Len(path) : path[i] = x

\* C10: for a simple path of the graph, whenever two consecutive keypoints
\* of find_key_points are g >= 2 hops apart in the path, the part of the
\* path between them is the only simple path of g edges between the two
\* routers.
C10_DroppedSegmentUnique ==
    (/\ kpc = "returned"
     /\ level = 1
     /\ Simple(original_path)
     /\ GraphSupportsPath(graph, original_path)) =>
        \A j \in 1..(Len(keypoints) - 1) :
            LET from == Position(original_path, keypoints[j][1])
                to == Position(original_path, keypoints[j + 1][1])
            IN to - from >= 2 =>
                   SimplePaths(graph, keypoints[j][1], keypoints[j + 1][1],
                               to - from)
                       = {SubSeq(original_path, from, to)}

\* a simple path that is not the only one of its length was split, and one
\* of its segments was dropped
C10_Witness ==
    /\ kpc = "returned"
    /\ level = 1
    /\ Simple(original_path)
    /\ GraphSupportsPath(graph, original_path)
    /\ \E j \in 1..Len(keypoints) : keypoints[j][2] >= 2
    /\ Cardinality(SimplePaths(graph, original_path[1],
                               original_path[Len(original_path)],
                               Len(original_path) - 1)) >= 2

\* the segmentation of path at the positions at: every segment of more
\* than one hop is the only simple path of its length between its ends
ValidSegmentation(g, path, at) ==
    \A j \in 1..(Len(at) - 1) :
        at[j + 1] - at[j] >= 2 =>
            SimplePaths(g, path[at[j]], path[at[j + 1]], at[j + 1] - at[j])
                = {SubSeq(path, at[j], at[j + 1])}

\* C21: for a simple path of more than two routers that the graph
\* supports, the keypoints find_key_points returns form a valid
\* segmentation of the path, and no valid segmentation of the path has
\* fewer keypoints.
C21_FewestSegments ==
    (/\ kpc = "returned"
     /\ level = 1
     /\ Len(original_path) > 2
     /\ Simple(original_path)
     /\ GraphSupportsPath(graph, original_path)) =>
        /\ \E at \in EndToEnd(original_path, Len(keypoints)) :
              /\ \A j \in 1..Len(keypoints) :
                    keypoints[j][1] = original_path[at[j]]
              /\ ValidSegmentation(graph, original_path, at)
        /\ \A n \in 2..(Len(keypoints) - 1) :
              \A at \in EndToEnd(original_path, n) :
                  ~ValidSegmentation(graph, original_path, at)

\* C21 witness: find_key_points returned a segmentation that keeps an
\* inner router and drops another one, so that segmentations with fewer
\* keypoints and with more keypoints both exist.
C21_Witness ==
    /\ kpc = "returned"
    /\ level = 1
    /\ Simple(original_path)
    /\ GraphSupportsPath(graph, original_path)
    /\ Len(keypoints) > 2
    /\ Len(keypoints) < Len(original_path)

\* C11 as claimed: a path of two routers or more with a consecutive pair that
\* is not an edge of the graph makes either algorithm raise MissingEdge, and
\* no keypoints are returned.
C11_MissingEdgeRaised ==
    (/\ kpc \notin {"build", "call"}
     /\ Len(original_path) >= 2
     /\ ~GraphSupportsPath(graph, original_path)) =>
        /\ kpc = "MissingEdge"
        /\ keypoints = <<>>

(***************************************************************************)
(* Part III.  The network database.                                        *)
(*                                                                         *)
(* A region is a list of tokens: a router, or ARROW for '->'.  The         *)
(* egresses are a Python set: the model walks them in increasing order,    *)
(* which only fixes the order of the list resolve_region returns.          *)
(***************************************************************************)
\* network_database.py: ARROW, a token that is no router
ARROW == NumRouters + 1

\* p[-1]
Last(p) == p[Len(p)]

\* resolve_region: extensions, the paths of spt[p[-1]][terminal] without their
\* first hop, for every terminal
RECURSIVE Extensions(_, _, _)
Extensions(p, terminals, s) ==
    IF terminals = <<>> THEN <<>>
    ELSE LET ps == s[Last(p)][Head(terminals)]
         IN [i \in 1..Len(ps) |-> Tail(ps[i])]
                \o Extensions(p, Tail(terminals), s)

\* resolve_region: self.graph.spt[p[-1]][terminal] raises no KeyError
HasSpt(p, terminals, s) ==
    \A i \in 1..Len(terminals) :
        /\ Last(p) \in DOMAIN s
        /\ terminals[i] \in DOMAIN s[Last(p)]

\* resolve_region: new, the clones of the paths ps for the extensions that
\* follow the first one
RECURSIVE NewPaths(_, _, _)
NewPaths(ps, terminals, s) ==
    IF ps = <<>> THEN <<>>
    ELSE LET p == Head(ps)
             extensions == Extensions(p, terminals, s)
         IN [k \in 1..(Len(extensions) - 1) |-> p \o extensions[k + 1]]
                \o NewPaths(Tail(ps), terminals, s)

\* resolve_region: the body of "for hop in walker" for an arrow, lines 70-87
Concat(ps, terminals, s) ==
    IF ps = <<>> THEN [err |-> "none", paths |-> ps]
    ELSE IF terminals = <<>> THEN [err |-> "StopIteration", paths |-> ps]
    ELSE IF \E i \in 1..Len(ps) : ~HasSpt(ps[i], terminals, s)
    THEN [err |-> "KeyError", paths |-> ps]
    ELSE [err |-> "none",
          paths |-> [i \in 1..Len(ps) |->
                        ps[i] \o Extensions(ps[i], terminals, s)[1]]
                    \o NewPaths(ps, terminals, s)]

\* resolve_region: "while hop == ARROW: hop = next(walker)" from the arrow at
\* position i; the position of the next hop, or past the end of the region
RECURSIVE NextHop(_, _)
NextHop(r, i) ==
    IF i > Len(r) \/ r[i] # ARROW THEN i ELSE NextHop(r, i + 1)

\* resolve_region: the loop "for hop in walker", the walker standing before
\* position i of the region r
RECURSIVE Walk(_, _, _, _, _)
Walk(r, i, ps, s, egr) ==
    IF i > Len(r) THEN [err |-> "none", paths |-> ps]
    ELSE IF r[i] # ARROW
    THEN Walk(r, i + 1, [k \in 1..Len(ps) |-> Append(ps[k], r[i])], s, egr)
    ELSE LET j == NextHop(r, i)
             terminals == IF j > Len(r) THEN Ascending(egr) ELSE <<r[j]>>
             out == Concat(ps, terminals, s)
         IN IF out.err # "none" THEN out
            ELSE Walk(r, j + 1, out.paths, s, egr)

\* network_database.py: resolve_region
ResolveRegionResult(r, s, egr) ==
    IF r = <<>> THEN [err |-> "none", paths |-> r]
    ELSE IF r[1] = ARROW
    THEN LET seeds == Ascending(egr)
         IN Walk(r, 1, [k \in 1..Len(seeds) |-> <<seeds[k]>>], s, egr)
    ELSE Walk(r, 2, <<<<r[1]>>>>, s, egr)

(***************************************************************************)
(* get_spt, one source at a time.                                          *)
(***************************************************************************)
\* get_spt: one iteration of "for n in g.nodes_iter()"
GetSptStep ==
    /\ npc = "get_spt"
    /\ todo # <<>>
    /\ LET n == Head(todo)
           tree == SptFromSrc(graph, n, metric)
       IN IF tree.err
          THEN /\ npc' = "ValueError"
               /\ UNCHANGED <<graph_spt, spt_cost, todo>>
          ELSE /\ graph_spt' = Put(graph_spt, n, tree.paths)
               /\ spt_cost' = Put(spt_cost, n, tree.dist)
               /\ todo' = Tail(todo)
               /\ UNCHANGED npc
    /\ UNCHANGED <<graph, edge_spt, metric, egresses, region, resolved>>
    /\ UNCHANGED outsideNet

\* get_spt returns spt, dist
GetSptReturn ==
    /\ npc = "get_spt"
    /\ todo = <<>>
    /\ npc' = "returned"
    /\ UNCHANGED <<graph, edge_spt, metric, egresses, graph_spt, spt_cost,
                   todo, region, resolved>>
    /\ UNCHANGED outsideNet

\* the routers that have links in the topologies with costs
Core == 1..NumCore

\* the links register_link can add between the routers of Core
CoreLinks == {l \in SUBSET Core : Cardinality(l) = 2}

\* register_link(u, v, cost=c): both directions of a link get its cost
MetricOf(costs) ==
    [e \in EdgesOf(DOMAIN costs) |-> costs[{e[1], e[2]}]]

\* the costs of the edges of any set of links of Core, every link with a
\* cost between 1 and MaxMetric
CoreMetrics ==
    {MetricOf(costs) :
        costs \in UNION {[links -> 1..MaxMetric] :
                            links \in SUBSET CoreLinks}}

\* Any topology whose links have a positive cost; get_spt is called on it.
InitSpt ==
    /\ SchedIdle
    /\ BwIdle
    /\ ConfIdle
    /\ ColIdle
    /\ kpc = "idle"
    /\ level = 0
    /\ original_path = <<>>
    /\ queue = <<>>
    /\ memo = {}
    /\ reject = {}
    /\ start = 0
    /\ new_path = <<>>
    /\ keypoints = <<>>
    /\ edge_spt = <<>>
    /\ metric \in CoreMetrics
    /\ graph = DOMAIN metric
    /\ egresses = {}
    /\ graph_spt = <<>>
    /\ spt_cost = <<>>
    /\ todo = Ascending(Routers)
    /\ npc = "get_spt"
    /\ region = <<>>
    /\ resolved = <<>>

NextSpt ==
    \/ GetSptStep
    \/ GetSptReturn

SpecSpt == InitSpt /\ [][NextSpt]_vars

\* the costs below zero that an edge is given
NegativeCosts == {-1, -MaxMetric}

\* register_unidirectional_link(u, v, cost=c) with c < 0 on a topology of
\* CoreMetrics: one edge, new or not, gets a negative cost
NegativeMetrics ==
    {Put(base, e, c) :
        <<base, e, c>> \in CoreMetrics
                             \X {l \in Core \X Core : l[1] # l[2]}
                             \X NegativeCosts}

\* Any topology in which an edge has a negative cost; get_spt is called
\* on it.
InitSptNegative ==
    /\ SchedIdle
    /\ BwIdle
    /\ ConfIdle
    /\ ColIdle
    /\ kpc = "idle"
    /\ level = 0
    /\ original_path = <<>>
    /\ queue = <<>>
    /\ memo = {}
    /\ reject = {}
    /\ start = 0
    /\ new_path = <<>>
    /\ keypoints = <<>>
    /\ edge_spt = <<>>
    /\ metric \in NegativeMetrics
    /\ graph = DOMAIN metric
    /\ egresses = {}
    /\ graph_spt = <<>>
    /\ spt_cost = <<>>
    /\ todo = Ascending(Routers)
    /\ npc = "get_spt"
    /\ region = <<>>
    /\ resolved = <<>>

\* get_spt returns when no source is left (GetSptReturn); here only its
\* loop takes steps, the properties say that it never gets to the return
NextSptNegative == GetSptStep

SpecSptNegative == InitSptNegative /\ [][NextSptNegative]_vars

\* the simple paths of graph g that extend the path p up to the router v
RECURSIVE PathsTo(_, _, _)
PathsTo(g, p, v) ==
    IF Last(p) = v THEN {p}
    ELSE UNION {PathsTo(g, Append(p, w), v) :
                   w \in Succ(g, Last(p)) \ Range(p)}

\* the cost of a path
PathCost(p, cost) ==
    SumOver(1..(Len(p) - 1), [i \in 1..(Len(p) - 1) |-> cost[<<p[i], p[i + 1]>>]])

\* the cheapest paths of graph g from u to v
CheapestPaths(g, u, v, cost) ==
    {p \in PathsTo(g, <<u>>, v) :
        \A o \in PathsTo(g, <<u>>, v) : PathCost(p, cost) <= PathCost(o, cost)}

\* C18: with positive costs, for every router v that can be reached from u,
\* the list spt[u][v] that get_spt returns holds the cheapest paths from u to
\* v, all of them and each once, and dist[u][v] is their cost.
C18_AllCheapestPaths ==
    npc = "returned" =>
        \A u, v \in Routers :
            PathsTo(graph, <<u>>, v) # {} =>
                /\ v \in DOMAIN graph_spt[u]
                /\ Range(graph_spt[u][v]) = CheapestPaths(graph, u, v, metric)
                /\ Len(graph_spt[u][v])
                      = Cardinality(CheapestPaths(graph, u, v, metric))
                /\ \A p \in Range(graph_spt[u][v]) :
                      spt_cost[u][v] = PathCost(p, metric)

\* two paths of the same cost and of different lengths lead from u to v
C18_Witness ==
    /\ npc = "returned"
    /\ \E u, v \in Routers :
          /\ v \in DOMAIN graph_spt[u]
          /\ \E p, o \in Range(graph_spt[u][v]) : Len(p) < Len(o)

(***************************************************************************)
(* resolve_region on a network database whose trees are built.             *)
(***************************************************************************)
\* NetDB.resolve_region(region), the trees of the graph being built
ResolveRegion ==
    /\ npc = "call"
    /\ kpc = "call"
    /\ LET out == ResolveRegionResult(region, graph_spt, egresses)
       IN IF out.err = "none"
          THEN /\ resolved' = out.paths
               /\ npc' = "returned"
          ELSE /\ npc' = out.err
               /\ UNCHANGED resolved
    /\ UNCHANGED <<graph, edge_spt, metric, egresses, graph_spt, spt_cost,
                   todo, region>>
    /\ UNCHANGED outsideNet

\* the regions a query can name: routers and arrows, in any order
RegionChoices ==
    UNION {[1..n -> Core \cup {ARROW}] : n \in 0..MaxRegionLen}

\* Any topology with costs, any set of egresses and any region.
InitResolve ==
    /\ SchedIdle
    /\ BwIdle
    /\ ConfIdle
    /\ ColIdle
    /\ kpc = "build"
    /\ level = 0
    /\ original_path = <<>>
    /\ queue = <<>>
    /\ memo = {}
    /\ reject = {}
    /\ start = 0
    /\ new_path = <<>>
    /\ keypoints = <<>>
    /\ edge_spt = <<>>
    /\ metric \in CoreMetrics
    /\ graph = DOMAIN metric
    /\ egresses \in SUBSET Core
    /\ graph_spt = <<>>
    /\ spt_cost = <<>>
    /\ todo = <<>>
    /\ npc = "call"
    /\ region \in RegionChoices
    /\ resolved = <<>>

NextResolve ==
    \/ BuildSpt
    \/ ResolveRegion

SpecResolve == InitResolve /\ [][NextResolve]_vars

\* the region has an arrow
HasArrow(r) == \E i \in 1..Len(r) : r[i] = ARROW

\* the shortest paths spt[u][v] stands for: none when v cannot be reached
SptPaths(s, u, v) ==
    IF u \in DOMAIN s /\ v \in DOMAIN s[u] THEN Range(s[u][v]) ELSE {}

\* the paths that replace the tokens of the region r from position i on, the
\* paths built so far being ps: every hop is added to every path, and every
\* gap is replaced by every shortest path to the hop that follows it, or to
\* every egress when no hop follows
RECURSIVE Expansions(_, _, _, _, _)
Expansions(r, i, ps, s, egr) ==
    IF i > Len(r) THEN ps
    ELSE IF r[i] # ARROW
    THEN Expansions(r, i + 1, {Append(p, r[i]) : p \in ps}, s, egr)
    ELSE LET j == NextHop(r, i)
             ends == IF j > Len(r) THEN egr ELSE {r[j]}
         IN Expansions(r, j + 1,
                       UNION {{p \o Tail(sp) :
                                  sp \in UNION {SptPaths(s, Last(p), t) :
                                                   t \in ends}} :
                              p \in ps},
                       s, egr)

\* the paths the region r stands for
Expanded(r, s, egr) ==
    IF r # <<>> /\ r[1] = ARROW
    THEN Expansions(r, 1, {<<e>> : e \in egr}, s, egr)
    ELSE Expansions(r, 1, {<<>>}, s, egr)

\* C12 as claimed: for every region, resolve_region returns the paths that
\* replace every gap by every shortest path of the tree, one list for each
\* combination; a region without arrow resolves to itself alone.
C12_ResolvesToCrossProduct ==
    npc \notin {"call"} =>
        /\ npc = "returned"
        /\ Range(resolved) = Expanded(region, graph_spt, egresses)
        /\ Len(resolved) = Cardinality(Expanded(region, graph_spt, egresses))
        /\ ~HasArrow(region) => resolved = <<region>>

\* C13 as claimed: resolve_region returns None for a region without arrow,
\* and a list of paths only for a region with an arrow.
C13_NoneWhenConcrete ==
    (npc \in {"returned", "returned None"} /\ ~HasArrow(region)) =>
        npc = "returned None"

\* C14 as claimed: two consecutive routers of a path that resolve_region
\* returns are an edge of the graph.
C14_ResolvedEdgesExist ==
    npc = "returned" =>
        \A k \in 1..Len(resolved) : GraphSupportsPath(graph, resolved[k])

(***************************************************************************)
(* The bandwidth measurements of the network database.                     *)
(***************************************************************************)
Prefixes == 1..NumPrefixes

\* record_bandwidth_usage: the measurements of the list kept in prior
Prior(measurements, considered, campaign_number) ==
    LET Kept(m) == m[1] + considered < campaign_number
    IN SelectSeq(measurements, Kept)

\* network_database.py: record_bandwidth_usage, the new past_measurements
RecordBandwidth(pm, considered, prefix, rate, campaign_number) ==
    IF prefix \in DOMAIN pm
    THEN Put(pm, prefix, Prior(pm[prefix], considered, campaign_number))
    ELSE Put(pm, prefix, <<<<campaign_number, rate>>>>)

\* max(bw for idx, bw in measurements), for a list that is not empty
MaxBw(measurements) ==
    CHOOSE b \in {measurements[i][2] : i \in 1..Len(measurements)} :
        \A i \in 1..Len(measurements) : measurements[i][2] <= b

\* NetDB.record_bandwidth_usage(prefix, rate, campaign_number)
RecordBandwidthUsage ==
    /\ bpc = "ready"
    /\ \E prefix \in Prefixes, rate \in 0..MaxRate,
          campaign_number \in 0..MaxCampaign :
          /\ past_measurements' =
                RecordBandwidth(past_measurements, past_campaigns_considered,
                                prefix, rate, campaign_number)
          /\ calls' = <<[prefix |-> prefix, rate |-> rate,
                         campaign_number |-> campaign_number,
                         known |-> prefix \in DOMAIN past_measurements,
                         earlier |-> IF prefix \in DOMAIN past_measurements
                                     THEN past_measurements[prefix]
                                     ELSE <<>>]>>
    /\ prediction' = <<>>
    /\ UNCHANGED <<bpc, net_max_bw, past_campaigns_considered>>
    /\ UNCHANGED outsideBw

\* NetDB.usage_prediction(prefix); netflow_estimation raises NoNetFlowRecords
UsagePrediction ==
    /\ bpc = "ready"
    /\ \E prefix \in Prefixes :
          IF prefix \notin DOMAIN past_measurements
          THEN /\ prediction' = <<[prefix |-> prefix, value |-> net_max_bw]>>
               /\ UNCHANGED bpc
          ELSE IF past_measurements[prefix] = <<>>
          THEN /\ bpc' = "ValueError"
               /\ UNCHANGED prediction
          ELSE /\ prediction' =
                     <<[prefix |-> prefix,
                        value |-> Min(MaxBw(past_measurements[prefix]),
                                      net_max_bw)]>>
               /\ UNCHANGED bpc
    /\ UNCHANGED <<net_max_bw, past_campaigns_considered, past_measurements,
                   calls>>
    /\ UNCHANGED outsideBw

\* A new NetDB(max_bw, past_campaigns_considered): nothing is measured yet.
InitBw ==
    /\ SchedIdle
    /\ KpsIdle
    /\ NetIdle
    /\ ConfIdle
    /\ ColIdle
    /\ bpc = "ready"
    /\ net_max_bw \in 1..MaxRate
    /\ past_campaigns_considered \in 0..MaxRetention
    /\ past_measurements = <<>>
    /\ prediction = <<>>
    /\ calls = <<>>

NextBw ==
    \/ RecordBandwidthUsage
    \/ UsagePrediction

SpecBw == InitBw /\ [][NextBw]_vars

\* C19 as claimed: whatever calls of record_bandwidth_usage came before,
\* usage_prediction never raises; it returns the largest measurement kept,
\* capped at max_bw, or max_bw when there is no measurement.
C19_PredictionNeverRaises ==
    /\ bpc # "ValueError"
    /\ prediction # <<>> =>
          LET prefix == prediction[1].prefix
              kept == IF prefix \in DOMAIN past_measurements
                      THEN past_measurements[prefix]
                      ELSE <<>>
          IN prediction[1].value =
                 IF kept = <<>> THEN net_max_bw
                 ELSE Min(MaxBw(kept), net_max_bw)

\* C20 as claimed: after record_bandwidth_usage(prefix, rate, c) the
\* measurements of prefix are (c, rate) and the earlier measurements
\* (idx, bw) with idx + past_campaigns_considered >= c, and no other.
C20_KeepsRecentAndNew ==
    calls # <<>> =>
        LET call == calls[1]
            recent == {m \in Range(call.earlier) :
                          m[1] + past_campaigns_considered
                              >= call.campaign_number}
        IN Range(past_measurements[call.prefix])
               = {<<call.campaign_number, call.rate>>} \cup recent

(***************************************************************************)
(* Part IV.  Region confinement (stroboscope/algorithms/confine.py).       *)
(*                                                                         *)
(* A graph of networkx is the record of its nodes and of its directed      *)
(* edges.  Python walks its sets in an order the model does not fix: where *)
(* the order decides which node is picked, every node is tried.            *)
(***************************************************************************)
\* nx.DiGraph(edges): the nodes are the ends of the edges
DiGraph(edges) ==
    [nodes |-> {e[1] : e \in edges} \cup {e[2] : e \in edges},
     edges |-> edges]

\* DiGraph.remove_nodes_from: the nodes go with the edges that touch them
RemoveNodes(g, ns) ==
    [nodes |-> g.nodes \ ns,
     edges |-> {e \in g.edges : e[1] \notin ns /\ e[2] \notin ns}]

\* DiGraph.neighbors_iter: the heads of the edges that leave n
Neighbors(edges, n) == {e[2] : e \in {x \in edges : x[1] = n}}

\* confine.py: __copy_graph_remove_node
CopyGraphRemoveNode(orig_g, remove_node) == RemoveNodes(orig_g, {remove_node})

\* confine.py: find_confinement_edges, which keeps the region-region links
FindConfinementEdgesAllLinks(g, reg) ==
    LET region_set == Range(reg)
        alone == {node \in region_set : Neighbors(g, node) \cap region_set = {}}
    IN IF alone # {}
       THEN [err |-> "MissingEdge", set |-> {}]
       ELSE [err |-> "ok",
             set |-> UNION {{<<node, v>> : v \in Neighbors(g, node)} :
                            node \in region_set}]

\* confine.py: find_confinement_edges; the first region node without a
\* neighbour in the region raises MissingEdge
FindConfinementEdgesResult(g, reg) ==
    LET region_set == Range(reg)
        alone == {node \in region_set : Neighbors(g, node) \cap region_set = {}}
    IN IF alone # {}
       THEN [err |-> "MissingEdge", set |-> {}]
       ELSE [err |-> "ok",
             set |-> UNION {{<<node, v>> : v \in Neighbors(g, node) \ region_set} :
                            node \in region_set}]

\* confine.py: find_confinement_region, the heads of the confinement edges
FindConfinementRegionResult(g, reg) ==
    LET found == FindConfinementEdgesResult(g, reg)
    IN [err |-> found.err, set |-> {e[2] : e \in found.set}]

\* confine.py: _identify_redundant_nodes, the while loop: the connected
\* component of the key point outside the region
RECURSIVE Explore(_, _, _, _)
Explore(edges, region_set, cc, to_visit) ==
    IF to_visit \subseteq cc THEN cc
    ELSE Explore(edges, region_set, cc \cup to_visit,
                 UNION {Neighbors(edges, n) : n \in to_visit \ cc} \ region_set)

\* confine.py: _identify_redundant_nodes, _reachability_set of one key
\* point, put back alone in the graph without the key points
ReachabilitySet(g, nodes, region_set, egr, kp) ==
    LET kp_less_graph == {e \in g : \/ e[1] = kp
                                    \/ e[2] = kp
                                    \/ {e[1], e[2]} \cap nodes = {}}
        cc == Explore(kp_less_graph, region_set, {}, {kp})
    IN (UNION {Neighbors(kp_less_graph, n) : n \in cc} \cap region_set)
           \cup (egr \cap cc)

\* confine.py: _identify_redundant_nodes, which keeps a key point only
\* when it separates more than two nodes of interest
IdentifyRedundantNodesThree(g, nodes, region_set, egr) ==
    IF \E kp \in nodes : ReachabilitySet(g, nodes, region_set, egr, kp) = {}
    THEN [err |-> "KeyError", set |-> {}]
    ELSE [err |-> "ok",
          set |-> {kp \in nodes :
                      Cardinality(ReachabilitySet(g, nodes, region_set,
                                                  egr, kp)) > 2}]

\* confine.py: _identify_redundant_nodes, the keys of node_info; the log
\* call of a redundant key point pops its _reachability_set, which raises
\* KeyError when the set is empty
IdentifyRedundantNodes(g, nodes, region_set, egr) ==
    IF \E kp \in nodes : ReachabilitySet(g, nodes, region_set, egr, kp) = {}
    THEN [err |-> "KeyError", set |-> {}]
    ELSE [err |-> "ok",
          set |-> {kp \in nodes :
                      Cardinality(ReachabilitySet(g, nodes, region_set,
                                                  egr, kp)) > 1}]

\* The name __merge_nodes gives the node that stands for a set of nodes:
\* the names of the nodes joined by '_', here a number no router bears.
Into(nodes) == NumConfNodes + SumOver(nodes, [n \in nodes |-> 2 ^ n])

\* confine.py: __merge_nodes; the merged node only enters the graph with
\* an edge, and the merged nodes leave it
MergeNodes(g, nodes) ==
    IF Cardinality(nodes) <= 1
    THEN [g |-> g, name |-> CHOOSE n \in nodes : TRUE]
    ELSE LET into == Into(nodes)
             in_edges == {<<e[1], into>> : e \in {x \in g.edges : x[2] \in nodes}}
             out_edges == {<<into, e[2]>> : e \in {x \in g.edges : x[1] \in nodes}}
             edges == in_edges \cup out_edges
         IN [g |-> RemoveNodes([nodes |-> g.nodes \cup DiGraph(edges).nodes,
                                edges |-> g.edges \cup edges], nodes),
             name |-> into]

\* graph.py: find_path, the part of the path from s to the meeting node
RECURSIVE PathFrom(_, _)
PathFrom(pred, u) ==
    IF pred[u] = 0 THEN <<u>> ELSE Append(PathFrom(pred, pred[u]), u)

\* graph.py: find_path, the part of the path after the meeting node
RECURSIVE PathTo(_, _)
PathTo(succ, u) ==
    IF succ[u] = 0 THEN <<>> ELSE <<succ[u]>> \o PathTo(succ, succ[u])

\* graph.py: __bdfs, one level at a time from the side whose frontier is
\* the smaller.  flow[e] is the used_flow of the edge e, the predicate of
\* __bounded_minimal_vertex_cut lets through the edges with used_flow < 1.
\* None is 0.  Looking up a node the graph does not hold raises KeyError.
RECURSIVE Bdfs(_, _, _, _, _, _)
Bdfs(nodes, flow, pred, q_s, succ, q_t) ==
    IF Cardinality(q_s) <= Cardinality(q_t)
    THEN IF ~(q_s \subseteq nodes)
         THEN [err |-> "KeyError", path |-> <<>>]
         ELSE LET open == {e \in DOMAIN flow : /\ e[1] \in q_s
                                               /\ flow[e] < 1
                                               /\ e[2] \notin DOMAIN pred}
                  found == {e[2] : e \in open}
                  new_pred == [v \in DOMAIN pred \cup found |->
                                  IF v \in DOMAIN pred THEN pred[v]
                                  ELSE (CHOOSE e \in open : e[2] = v)[1]]
                  meet == found \cap DOMAIN succ
              IN IF meet # {}
                 THEN LET n == CHOOSE v \in meet : TRUE
                      IN [err |-> "ok",
                          path |-> PathFrom(new_pred, n) \o PathTo(succ, n)]
                 ELSE IF found = {}
                 THEN [err |-> "ok", path |-> <<>>]
                 ELSE Bdfs(nodes, flow, new_pred, found, succ, q_t)
    ELSE IF ~(q_t \subseteq nodes)
         THEN [err |-> "KeyError", path |-> <<>>]
         ELSE LET open == {e \in DOMAIN flow : /\ e[2] \in q_t
                                               /\ flow[e] < 1
                                               /\ e[1] \notin DOMAIN succ}
                  found == {e[1] : e \in open}
                  new_succ == [v \in DOMAIN succ \cup found |->
                                  IF v \in DOMAIN succ THEN succ[v]
                                  ELSE (CHOOSE e \in open : e[1] = v)[2]]
                  meet == found \cap DOMAIN pred
              IN IF meet # {}
                 THEN LET n == CHOOSE v \in meet : TRUE
                      IN [err |-> "ok",
                          path |-> PathFrom(pred, n) \o PathTo(new_succ, n)]
                 ELSE IF found = {}
                 THEN [err |-> "ok", path |-> <<>>]
                 ELSE Bdfs(nodes, flow, pred, q_s, new_succ, found)

\* graph.py: find_path
FindPath(nodes, flow, s, t) ==
    IF s = t THEN [err |-> "ok", path |-> <<s>>]
    ELSE Bdfs(nodes, flow, (s :> 0), {s}, (t :> 0), {t})

\* confine.py: __bounded_minimal_vertex_cut, the flow pushed along a path
Augment(flow, path) ==
    LET forward == {<<path[i], path[i + 1]>> : i \in 1..(Len(path) - 1)}
        backward == {<<path[i + 1], path[i]>> : i \in 1..(Len(path) - 1)}
    IN [e \in DOMAIN flow |->
           flow[e] + (IF e \in forward THEN 1 ELSE 0)
                   - (IF e \in backward THEN 1 ELSE 0)]

\* confine.py: __bounded_minimal_vertex_cut, the while loop and the test
\* that follows it
RECURSIVE FlowLoop(_, _, _, _, _, _)
FlowLoop(nodes, flow, s, t, flow_value, bound) ==
    IF flow_value > bound
    THEN [err |-> "CutTooBig", value |-> flow_value]
    ELSE LET found == FindPath(nodes, flow, s, t)
         IN IF found.err # "ok"
            THEN [err |-> found.err, value |-> flow_value]
            ELSE IF found.path = <<>>
            THEN [err |-> "ok", value |-> flow_value]
            ELSE FlowLoop(nodes, Augment(flow, found.path), s, t,
                          flow_value + 1, bound)

\* confine.py: __bounded_minimal_vertex_cut.  An edge without its reverse
\* gets one that is used up; the graphs of the model have every link in
\* both directions, and merging nodes keeps them so.
BoundedMinimalVertexCut(base_graph, src, dst, bound) ==
    LET merged_src == MergeNodes(base_graph, src)
        merged_dst == MergeNodes(merged_src.g, dst)
        g == merged_dst.g
        reverse == {<<e[2], e[1]>> : e \in g.edges}
        flow == [e \in g.edges \cup reverse |-> IF e \in g.edges THEN 0 ELSE 1]
    IN FlowLoop(g.nodes, flow, merged_src.name, merged_dst.name, 0, bound)

\* confine.py: NMC, step 1: an edge has its ends in two terminal sets
EdgeBetweenTerminals(a) ==
    \E e \in a.G.edges : \E i, j \in 1..Len(a.terminals) :
        /\ i # j
        /\ e[1] \in a.terminals[i]
        /\ e[2] \in a.terminals[j]

\* confine.py: NMC, step 2: the non-terminals with neighbours in more than
\* one terminal set
MultipleNeighbours(a) ==
    {w \in a.non_terminals :
        Cardinality({i \in 1..Len(a.terminals) :
                        Neighbors(a.G.edges, w) \cap a.terminals[i] # {}}) > 1}

\* What a call of NMC does before it returns, raises or calls itself:
\*   "return"  it returns [];
\*   "raise"   it raises exc;
\*   "tail"    it returns what NMC(next) returns;
\*   "push"    it calls NMC(next) and appends node to the result; when
\*             catch holds, a NoReduction of that call is caught and the
\*             call returns what NMC(alt) returns.
Outcome(kind, exc, node, catch, next, alt) ==
    [kind |-> kind, exc |-> exc, node |-> node, catch |-> catch,
     next |-> next, alt |-> alt]

Raise(a, exc) == Outcome("raise", exc, 0, FALSE, a, a)

\* confine.py: NMC, steps 6.1 to 6.3 for the non-terminal u
GrowOrRemove(a, u, m1) ==
    LET t1 == a.terminals[1]
        t2_l == Tail(a.terminals)
        t1_prime == t1 \cup {u}
        non_terminals_minus_u == a.non_terminals \ {u}
        grown == [G |-> a.G, terminals |-> <<t1_prime>> \o t2_l, k |-> a.k,
                  non_terminals |-> non_terminals_minus_u]
        size == BoundedMinimalVertexCut(a.G, t1_prime, UNION Range(t2_l), m1)
    IN IF size.err = "ok"
       THEN IF size.value = m1
            THEN Outcome("tail", "", 0, FALSE, grown, grown)
            ELSE Raise(a, "RuntimeError")
       ELSE IF size.err = "CutTooBig"
       THEN Outcome("push", "", u, TRUE,
                    [G |-> CopyGraphRemoveNode(a.G, u),
                     terminals |-> a.terminals, k |-> a.k - 1,
                     non_terminals |-> non_terminals_minus_u],
                    grown)
       ELSE Raise(a, size.err)

\* confine.py: NMC, steps 3 to 6
CutSteps(a) ==
    LET t1 == a.terminals[1]
        t2_l == Tail(a.terminals)
        m1 == BoundedMinimalVertexCut(a.G, t1, UNION Range(t2_l), a.k)
        tlen == Len(a.terminals)
        candidates == a.non_terminals
                         \cap UNION {Neighbors(a.G.edges, t) : t \in t1}
    IN IF m1.err = "CutTooBig" THEN {Raise(a, "NoReduction")}
       ELSE IF m1.err # "ok" THEN {Raise(a, m1.err)}
       ELSE IF m1.value = 0 /\ tlen = 2
       THEN {Outcome("return", "", 0, FALSE, a, a)}
       ELSE IF m1.value = 0 /\ tlen > 2
       THEN LET rest == [G |-> a.G, terminals |-> t2_l, k |-> a.k,
                         non_terminals |-> a.non_terminals]
            IN {Outcome("tail", "", 0, FALSE, rest, rest)}
       ELSE IF candidates = {}
       THEN {Raise(a, "KeyError")}
       ELSE {GrowOrRemove(a, u, m1.value) : u \in candidates}

\* confine.py: NMC, one call with the arguments a
NmcOutcomes(a) ==
    IF EdgeBetweenTerminals(a) THEN {Raise(a, "NoReduction")}
    ELSE IF MultipleNeighbours(a) # {}
    THEN {Outcome("push", "", w, FALSE,
                  [G |-> CopyGraphRemoveNode(a.G, w),
                   terminals |-> a.terminals, k |-> a.k - 1,
                   non_terminals |-> a.non_terminals \ {w}],
                  a) : w \in MultipleNeighbours(a)}
    ELSE CutSteps(a)

(***************************************************************************)
(* Actions of NMC.  cpc is "nmc" while a call runs, "nmc_return" while a   *)
(* result goes up the waiting calls, "nmc_raise" while NoReduction does.   *)
(***************************************************************************)
\* NMC: the running call, up to its return, its raise or its next call
NmcCall ==
    /\ cpc = "nmc"
    /\ \E out \in NmcOutcomes(nmc) :
          /\ cpc' = CASE out.kind = "return" -> "nmc_return"
                      [] out.kind = "raise" ->
                             IF out.exc = "NoReduction" THEN "nmc_raise"
                             ELSE out.exc
                      [] OTHER -> "nmc"
          /\ nmc' = IF out.kind \in {"tail", "push"} THEN out.next ELSE nmc
          /\ stack' = CASE out.kind = "push" ->
                               Append(stack, [node |-> out.node,
                                              catch |-> out.catch,
                                              alt |-> out.alt])
                        [] out.kind = "raise" /\ out.exc # "NoReduction" -> <<>>
                        [] OTHER -> stack
          /\ cut' = IF out.kind = "return" THEN <<>> ELSE cut
    /\ UNCHANGED <<cgraph, cregion, cegresses, opt_level, confinement,
                   kp_info, nmc_call>>
    /\ UNCHANGED outsideConf

\* NMC, lines 140-141 and 184-187: the waiting call appends its node to
\* the result and returns it
NmcReturn ==
    /\ cpc = "nmc_return"
    /\ IF stack = <<>>
       THEN /\ cpc' = "nmc_returned"
            /\ UNCHANGED <<stack, cut>>
       ELSE /\ cut' = Append(cut, stack[Len(stack)].node)
            /\ stack' = SubSeq(stack, 1, Len(stack) - 1)
            /\ UNCHANGED cpc
    /\ UNCHANGED <<cgraph, cregion, cegresses, opt_level, confinement,
                   kp_info, nmc_call, nmc>>
    /\ UNCHANGED outsideConf

\* NMC, lines 137-139 and 188-192: NoReduction leaves the waiting call,
\* unless the call is at step 6.2 and goes on with step 6.3
NmcRaise ==
    /\ cpc = "nmc_raise"
    /\ IF stack = <<>>
       THEN /\ cpc' = "NoReduction"
            /\ UNCHANGED <<stack, nmc>>
       ELSE /\ stack' = SubSeq(stack, 1, Len(stack) - 1)
            /\ IF stack[Len(stack)].catch
               THEN /\ nmc' = stack[Len(stack)].alt
                    /\ cpc' = "nmc"
               ELSE UNCHANGED <<nmc, cpc>>
    /\ UNCHANGED <<cgraph, cregion, cegresses, opt_level, confinement,
                   kp_info, nmc_call, cut>>
    /\ UNCHANGED outsideConf

(***************************************************************************)
(* Actions of the confinement call.                                        *)
(***************************************************************************)
\* CONFINE_OPT[0]: find_confinement_edges(graph, region)
FindConfinementEdges ==
    /\ cpc = "ready"
    /\ LET found == FindConfinementEdgesResult(cgraph, cregion)
       IN /\ cpc' = IF found.err = "ok" THEN "returned" ELSE found.err
          /\ confinement' = found.set
    /\ opt_level' = 0
    /\ UNCHANGED <<cgraph, cregion, cegresses, kp_info, nmc_call, nmc, stack,
                   cut>>
    /\ UNCHANGED outsideConf

\* CONFINE_OPT[1]: find_confinement_region(graph, region)
FindConfinementRegion ==
    /\ cpc = "ready"
    /\ LET found == FindConfinementRegionResult(cgraph, cregion)
       IN /\ cpc' = IF found.err = "ok" THEN "returned" ELSE found.err
          /\ confinement' = found.set
    /\ opt_level' = 1
    /\ UNCHANGED <<cgraph, cregion, cegresses, kp_info, nmc_call, nmc, stack,
                   cut>>
    /\ UNCHANGED outsideConf

\* the lists that hold every element of S once
Orderings(S) ==
    {f \in [1..Cardinality(S) -> S] : \A i, j \in DOMAIN f : f[i] = f[j] => i = j}

\* confine.py: _rule_replacement, the graph without the region-region
\* edges and without the nodes these removals leave with no neighbour
ReplacementGraph(g, region_set) ==
    LET kept == {e \in g : ~(e[1] \in region_set /\ e[2] \in region_set)}
        disconnected_nodes == {n \in DiGraph(g).nodes : Neighbors(kept, n) = {}}
    IN RemoveNodes([nodes |-> DiGraph(g).nodes, edges |-> kept],
                   disconnected_nodes)

\* CONFINE_OPT[2]: find_confinement_relaxed(graph, region), up to the call
\* of NMC in _rule_replacement, or to the return when NMC is not called
FindConfinementRelaxed ==
    /\ cpc = "ready"
    /\ opt_level' = 2
    /\ LET found == FindConfinementRegionResult(cgraph, cregion)
           region_set == Range(cregion)
           egr == cegresses \ region_set
           keypoint_info == IdentifyRedundantNodes(cgraph, found.set,
                                                   region_set, egr)
           g == ReplacementGraph(cgraph, region_set)
           last == IF egr # {} THEN <<egr>> ELSE <<>>
           tcount == Cardinality(g.nodes \cap region_set) + Len(last)
       IN IF found.err # "ok" \/ keypoint_info.err # "ok" \/ tcount < 2
          THEN /\ cpc' = IF found.err # "ok" THEN found.err
                         ELSE IF keypoint_info.err # "ok"
                         THEN keypoint_info.err
                         ELSE "returned"
               /\ confinement' = keypoint_info.set
               /\ kp_info' = keypoint_info.set
               /\ UNCHANGED <<nmc_call, nmc>>
          ELSE \E order \in Orderings(g.nodes \cap region_set) :
                  LET terminals == [i \in DOMAIN order |-> {order[i]}] \o last
                      a == [G |-> g,
                            terminals |-> terminals,
                            k |-> Cardinality(keypoint_info.set) - 1,
                            non_terminals |-> g.nodes \ UNION Range(terminals)]
                  IN /\ cpc' = "nmc"
                     /\ kp_info' = keypoint_info.set
                     /\ nmc_call' = a
                     /\ nmc' = a
                     /\ UNCHANGED confinement
    /\ UNCHANGED <<cgraph, cregion, cegresses, stack, cut>>
    /\ UNCHANGED outsideConf

\* confine.py: _rule_replacement, lines 66-70: the set of the nodes NMC
\* returned, or the key points when NMC raised NoReduction
RuleReplacementReturn ==
    /\ cpc \in {"nmc_returned", "NoReduction"}
    /\ opt_level = 2
    /\ confinement' = IF cpc = "nmc_returned" THEN Range(cut) ELSE kp_info
    /\ cpc' = "returned"
    /\ UNCHANGED <<cgraph, cregion, cegresses, opt_level, kp_info, nmc_call,
                   nmc, stack, cut>>
    /\ UNCHANGED outsideConf

(***************************************************************************)
(* Specifications of Part IV.                                              *)
(***************************************************************************)
\* the links between n routers whose numbers differ by one or two
BandLinks(n) == {l \in (1..n) \X (1..n) : l[2] - l[1] \in {1, 2}}

\* register_link makes the two directed edges of every link
BothWays(links) == links \cup {<<l[2], l[1]>> : l \in links}

\* the lists of at most MaxConfRegion routers with consecutive numbers
RegionLists(n) ==
    {[i \in 1..len |-> first + i - 1] :
        <<first, len>> \in {x \in (1..n) \X (0..MaxConfRegion) :
                               /\ x[1] + x[2] - 1 <= n
                               /\ x[2] = 0 => x[1] = 1}}

\* A graph of NumConfNodes routers, a region of routers with consecutive
\* numbers and the egresses among the last routers; any of the three
\* functions of CONFINE_OPT is called.
InitConfine ==
    /\ SchedIdle
    /\ KpsIdle
    /\ NetIdle
    /\ BwIdle
    /\ ColIdle
    /\ cpc = "ready"
    /\ \E links \in SUBSET BandLinks(NumConfNodes) : cgraph = BothWays(links)
    /\ cregion \in RegionLists(NumConfNodes)
    /\ \E n \in 0..MaxEgresses :
          cegresses = (NumConfNodes - n + 1)..NumConfNodes
    /\ opt_level = 0
    /\ confinement = {}
    /\ kp_info = {}
    /\ nmc_call = <<>>
    /\ nmc = <<>>
    /\ stack = <<>>
    /\ cut = <<>>

NextConfine ==
    \/ FindConfinementEdges
    \/ FindConfinementRegion
    \/ FindConfinementRelaxed
    \/ NmcCall
    \/ NmcReturn
    \/ NmcRaise
    \/ RuleReplacementReturn

SpecConfine == InitConfine /\ [][NextConfine]_vars

\* the lists of at least two disjoint sets of nodes: labels[n] is the
\* position of the set that holds n, 0 when n is in none
TerminalLists(nodes) ==
    {[i \in 1..m |-> {n \in nodes : labels[n] = i}] :
        <<m, labels>> \in
            {x \in (2..MaxTerminals) \X [nodes -> 0..MaxTerminals] :
                {x[2][n] : n \in nodes} \ {0} = 1..x[1]}}

\* A direct call NMC(G, terminals, k, non_terminals) on a graph built from
\* the links of NumNmcNodes routers.
InitNmc ==
    /\ SchedIdle
    /\ KpsIdle
    /\ NetIdle
    /\ BwIdle
    /\ ColIdle
    /\ cpc = "nmc"
    /\ \E links \in SUBSET BandLinks(NumNmcNodes) : cgraph = BothWays(links)
    /\ cregion = <<>>
    /\ cegresses = {}
    /\ opt_level = 0
    /\ confinement = {}
    /\ kp_info = {}
    /\ \E terminals \in TerminalLists(DiGraph(cgraph).nodes) :
       \E k \in -1..MaxCut :
          nmc_call = [G |-> DiGraph(cgraph),
                      terminals |-> terminals,
                      k |-> k,
                      non_terminals |-> DiGraph(cgraph).nodes
                                           \ UNION Range(terminals)]
    /\ nmc = nmc_call
    /\ stack = <<>>
    /\ cut = <<>>

NextNmc ==
    \/ NmcCall
    \/ NmcReturn
    \/ NmcRaise

SpecNmc == InitNmc /\ [][NextNmc]_vars

\* confine.py, lines 146 and 170: a call of __bounded_minimal_vertex_cut;
\* cut holds the value it returns
BoundedCutCall ==
    /\ cpc = "cut"
    /\ LET r == BoundedMinimalVertexCut(nmc_call.G, nmc_call.terminals[1],
                                        nmc_call.terminals[2], nmc_call.k)
       IN /\ cpc' = IF r.err = "ok" THEN "cut_returned" ELSE r.err
          /\ cut' = IF r.err = "ok" THEN <<r.value>> ELSE cut
    /\ UNCHANGED <<cgraph, cregion, cegresses, opt_level, confinement,
                   kp_info, nmc_call, nmc, stack>>
    /\ UNCHANGED outsideConf

\* A direct call __bounded_minimal_vertex_cut(G, src, dst, k) on a graph
\* built from the links of NumCutNodes routers, for two disjoint sets of
\* its nodes.
InitCut ==
    /\ SchedIdle
    /\ KpsIdle
    /\ NetIdle
    /\ BwIdle
    /\ ColIdle
    /\ cpc = "cut"
    /\ \E links \in SUBSET BandLinks(NumCutNodes) : cgraph = BothWays(links)
    /\ cregion = <<>>
    /\ cegresses = {}
    /\ opt_level = 0
    /\ confinement = {}
    /\ kp_info = {}
    /\ \E terminals \in TerminalLists(DiGraph(cgraph).nodes) :
       \E k \in 0..MaxCut :
          /\ Len(terminals) = 2
          /\ nmc_call = [G |-> DiGraph(cgraph),
                         terminals |-> terminals,
                         k |-> k,
                         non_terminals |-> DiGraph(cgraph).nodes
                                              \ UNION Range(terminals)]
    /\ nmc = nmc_call
    /\ stack = <<>>
    /\ cut = <<>>

NextCut == BoundedCutCall

SpecCut == InitCut /\ [][NextCut]_vars

\* A direct call NMC(G, [{s}, {t}], k, non_terminals) on a graph built from
\* the links of NumGrowNodes routers, for two terminal sets of one node.
InitGrow ==
    /\ SchedIdle
    /\ KpsIdle
    /\ NetIdle
    /\ BwIdle
    /\ ColIdle
    /\ cpc = "nmc"
    /\ \E links \in SUBSET BandLinks(NumGrowNodes) : cgraph = BothWays(links)
    /\ cregion = <<>>
    /\ cegresses = {}
    /\ opt_level = 0
    /\ confinement = {}
    /\ kp_info = {}
    /\ \E s \in DiGraph(cgraph).nodes :
       \E t \in DiGraph(cgraph).nodes \ {s} :
       \E k \in 0..MaxCut :
          nmc_call = [G |-> DiGraph(cgraph),
                      terminals |-> <<{s}, {t}>>,
                      k |-> k,
                      non_terminals |-> DiGraph(cgraph).nodes \ {s, t}]
    /\ nmc = nmc_call
    /\ stack = <<>>
    /\ cut = <<>>

SpecGrow == InitGrow /\ [][NextNmc]_vars

(***************************************************************************)
(* Properties of Part IV.                                                  *)
(***************************************************************************)
\* the nodes a walk from the nodes of S reaches without entering removed
RECURSIVE Flood(_, _, _)
Flood(g, S, removed) ==
    LET more == {e[2] : e \in {x \in g : x[1] \in S}} \ (S \cup removed)
    IN IF more = {} THEN S ELSE Flood(g, S \cup more, removed)

\* the edges of the graph that leave the region
LeavingEdges == {e \in cgraph : e[1] \in Range(cregion) /\ e[2] \notin Range(cregion)}

\* a node of the region has no neighbour in the region
SomeNodeAlone ==
    \E n \in Range(cregion) :
        \A e \in cgraph : e[1] = n => e[2] \notin Range(cregion)

RegionConnected ==
    \A n \in Range(cregion) :
        Flood({e \in cgraph : {e[1], e[2]} \subseteq Range(cregion)}, {n}, {})
            = Range(cregion)

\* C16: on a graph whose links exist in both directions and for a connected
\* region, the nodes find_confinement_region (level 1) and
\* find_confinement_relaxed (level 2) return hold no node of the region,
\* and once they are removed no egress outside the region is reachable
\* from a node of the region.
C16_ReturnedNodesCutTheEgresses ==
    (cpc = "returned" /\ opt_level \in {1, 2} /\ RegionConnected) =>
        /\ confinement \cap Range(cregion) = {}
        /\ Flood(cgraph, Range(cregion), confinement)
               \cap (cegresses \ Range(cregion)) = {}

\* C16 witness: find_confinement_relaxed returned nodes NMC found, one of
\* them not next to the region, on a graph where the region reaches an
\* egress outside of it.
C16_Witness ==
    /\ cpc = "returned"
    /\ opt_level = 2
    /\ ~(confinement \subseteq {e[2] : e \in LeavingEdges})
    /\ Flood(cgraph, Range(cregion), {}) \cap (cegresses \ Range(cregion)) # {}

\* the outermost call of NMC returned or raised
NmcOver == cpc \in {"nmc_returned", "NoReduction", "KeyError", "RuntimeError"}

\* the list NMC returned separates the terminal sets it was given
Separated ==
    \A i, j \in 1..Len(nmc_call.terminals) :
        i # j => Flood(nmc_call.G.edges, nmc_call.terminals[i], Range(cut))
                     \cap nmc_call.terminals[j] = {}

\* C17: on a graph whose links exist in both directions, for a list of two
\* or more disjoint terminal sets and any k, NMC raises NoReduction or
\* returns at most k distinct non-terminal nodes whose removal leaves no
\* path between two terminal sets; it returns nothing when k < 0.
C17_NmcCutsOrFails ==
    NmcOver =>
        \/ cpc = "NoReduction"
        \/ /\ cpc = "nmc_returned"
           /\ Len(cut) <= nmc_call.k
           /\ Cardinality(Range(cut)) = Len(cut)
           /\ Range(cut) \subseteq nmc_call.non_terminals
           /\ Separated

\* the sets of non-terminal nodes whose removal leaves no path from the
\* first terminal set to the second
NodeCuts ==
    {X \in SUBSET nmc_call.non_terminals :
        Flood(nmc_call.G.edges, nmc_call.terminals[1], X)
            \cap nmc_call.terminals[2] = {}}

\* the size of a smallest such set
MinNodeCut ==
    CHOOSE n \in 0..Cardinality(nmc_call.non_terminals) :
        /\ \E X \in NodeCuts : Cardinality(X) = n
        /\ \A X \in NodeCuts : Cardinality(X) >= n

\* C23: for disjoint sets S and T and k >= 0, __bounded_minimal_vertex_cut
\* returns the size of a smallest set of nodes outside S and T whose
\* removal separates S from T whenever that size is at most k, and it
\* raises CutTooBig exactly when that size is greater than k.
C23_CutIsMinimumNodeCut ==
    (cpc \in {"cut_returned", "CutTooBig"} /\ NodeCuts # {}) =>
        /\ cpc = "cut_returned" => cut = <<MinNodeCut>>
        /\ cpc = "CutTooBig" <=> MinNodeCut > nmc_call.k

\* C24: in a call of NMC on a graph whose links exist in both directions,
\* the cut computed for T1 with the node u added is never smaller than
\* m1, so NMC never raises the RuntimeError "[BUG] Adding a node to a
\* terminal set cannot reduce its minimum cut size!!!".
C24_GrowingNeverReducesTheCut == cpc # "RuntimeError"

\* the edges with a cost below zero
NegativeEdges == {e \in DOMAIN metric : metric[e] < 0}

\* C25: on a graph with at least one edge of negative cost, get_spt fails
\* with an error and returns no trees, wherever that edge lies: as long as
\* get_spt has not raised, the source of a negative edge is still to be
\* handled, so the loop over the sources is never exhausted.
C25_NegativeCostRaises ==
    NegativeEdges # {} =>
        /\ npc \in {"get_spt", "ValueError"}
        /\ npc = "get_spt" => \E e \in NegativeEdges : e[1] \in Range(todo)

\* get_spt computed the trees of some sources before it met the negative
\* edge, which lies beyond a link of positive cost
C25_Witness ==
    /\ npc = "ValueError"
    /\ Len(todo) <= NumRouters - 2
    /\ \E e \in DOMAIN metric : metric[e] > 0
    /\ NegativeEdges # {}

(***************************************************************************)
(* Part V.  The collector.                                                 *)
(*                                                                         *)
(* Two threads share the Collector object: the thread that called          *)
(* parse_requirements runs execute_campaigns, and the thread of the        *)
(* Dissector calls process_packet for every packet it receives.  A step    *)
(* of the model is a group of statements that reads or writes the shared   *)
(* attributes once.  The query objects are told apart by a generation:     *)
(* the queries of Requirements.queries have generation 0, the queries      *)
(* that query.resolve makes during the compilation for campaign n have     *)
(* generation n + 1.  A rule stands for the one query that generated it.   *)
(***************************************************************************)
ColQueries == 1..NumColQueries

\* requirements.py: derive_slot_count with the MIN_SLOT_DURATION of the three
\* backends of rule_backend.py (lines 21, 90 and 97)
BackendSlotDurations == {Max(max_path_delay, m) : m \in {23, 25, 1000}}

\* the schedules "when" may return: balance_and_schedule puts every query
\* in a slot
ColSchedules ==
    {s \in UNION {[1..n -> SUBSET ColQueries] : n \in 1..MaxColSlots} :
        UNION Range(s) = ColQueries}

\* start_measurements: slot_count[q]
SlotCountOf(schedule, q) ==
    Cardinality({i \in 1..Len(schedule) : q \in schedule[i]})

\* start_measurements: q.cost * slot_len * slot_count[q]
Allowance(schedule, len, q) == qcost[q] * len * SlotCountOf(schedule, q)

\* the results of Requirements.compile for campaign n: a new schedule, None
\* when "what" detected no change, NoSchedule when "when" found no
\* schedule, and from the third campaign on the ValueError of
\* usage_prediction for a prefix whose measurements were all dropped
CompileOutcomes(n) ==
    {[kind |-> "new", schedule |-> s] : s \in ColSchedules}
        \cup {[kind |-> "None", schedule |-> <<>>],
              [kind |-> "NoSchedule", schedule |-> <<>>]}
        \cup (IF n >= 2 THEN {[kind |-> "ValueError", schedule |-> <<>>]}
              ELSE {})

\* execute_campaigns: the test of "while core.RUNNING", the start of a
\* campaign, and self.stop() after the loop
ExecuteCampaigns ==
    /\ lpc = "while"
    /\ RUNNING => next_id < MaxCampaigns
    /\ IF RUNNING
       THEN /\ traffic_slices' = 0
            /\ lpc' = "compile"
       ELSE /\ lpc' = "stopped"
            /\ UNCHANGED traffic_slices
    /\ UNCHANGED <<RUNNING, next_id, resolves, qcost, slot_duration,
                   past_schedule_prop, is_disabled, slot_len,
                   activation_count, slot_index, slot_todo, bw_usage,
                   activation_list, backend, ppc, pkt, pkt_left, received>>
    /\ UNCHANGED outsideCol

\* start_measurements, lines 96-115: the compilation, the choice of the
\* schedule, the counters of the campaign and the new bw_usage.  "what"
\* resets is_disabled on the queries of Requirements.queries; NoSchedule
\* is caught by execute_campaigns, which leaves its loop and stops.
StartMeasurements ==
    /\ lpc = "compile"
    /\ \E out \in CompileOutcomes(next_id) :
         LET prop == IF out.kind = "new"
                     THEN [schedule |-> out.schedule,
                           gen |-> IF resolves THEN next_id + 1 ELSE 0]
                     ELSE past_schedule_prop
             len == slot_duration \div 1000
         IN /\ is_disabled' = IF ~resolves \/ out.kind = "new"
                              THEN [q \in ColQueries |-> FALSE]
                              ELSE is_disabled
            /\ IF out.kind \in {"NoSchedule", "ValueError"}
               THEN /\ lpc' = IF out.kind = "NoSchedule" THEN "stopped"
                              ELSE "ValueError"
                    /\ UNCHANGED <<past_schedule_prop, slot_len,
                                   activation_count, slot_index, bw_usage>>
               ELSE IF prop = <<>>
               THEN /\ lpc' = "TypeError"
                    /\ UNCHANGED <<past_schedule_prop, slot_len,
                                   activation_count, slot_index, bw_usage>>
               ELSE /\ past_schedule_prop' = prop
                    /\ slot_len' = len
                    /\ activation_count' = [q \in ColQueries |-> 0]
                    /\ bw_usage' =
                          [gen |-> prop.gen,
                           left |-> [q \in ColQueries |->
                                        Allowance(prop.schedule, len, q)]]
                    /\ slot_index' = 1
                    /\ lpc' = "slot"
    /\ UNCHANGED <<RUNNING, next_id, resolves, qcost, slot_duration,
                   slot_todo, activation_list, traffic_slices, backend,
                   ppc, pkt, pkt_left, received>>
    /\ UNCHANGED outsideCol

\* execute_slot, line 135: self.activation_list = {}
ExecuteSlotReset ==
    /\ lpc = "slot"
    /\ activation_list' = [gen |-> past_schedule_prop.gen, rules |-> {}]
    /\ slot_todo' = Ascending(past_schedule_prop.schedule[slot_index])
    /\ lpc' = "slot_add"
    /\ UNCHANGED <<RUNNING, next_id, resolves, qcost, slot_duration,
                   past_schedule_prop, is_disabled, slot_len,
                   activation_count, slot_index, bw_usage, traffic_slices,
                   backend, ppc, pkt, pkt_left, received>>
    /\ UNCHANGED outsideCol

\* execute_slot, lines 136-150: one iteration of "for q in slot"
ExecuteSlotAdd ==
    /\ lpc = "slot_add"
    /\ slot_todo # <<>>
    /\ LET q == Head(slot_todo)
       IN IF is_disabled[q]
          THEN UNCHANGED <<activation_count, activation_list>>
          ELSE /\ activation_count' = [activation_count EXCEPT ![q] = @ + 1]
               /\ activation_list' = [activation_list EXCEPT
                                         !.rules = @ \cup {q}]
    /\ slot_todo' = Tail(slot_todo)
    /\ UNCHANGED <<RUNNING, lpc, next_id, resolves, qcost, slot_duration,
                   past_schedule_prop, is_disabled, slot_len, slot_index,
                   bw_usage, traffic_slices, backend, ppc, pkt, pkt_left,
                   received>>
    /\ UNCHANGED outsideCol

\* execute_slot, lines 151-155: RULE_BACKEND.activate for every location of
\* the activation list
ExecuteSlotActivate ==
    /\ lpc = "slot_add"
    /\ slot_todo = <<>>
    /\ backend' = IF activation_list.rules # {}
                  THEN activation_list.rules ELSE backend
    /\ lpc' = "slot_sleep"
    /\ UNCHANGED <<RUNNING, next_id, resolves, qcost, slot_duration,
                   past_schedule_prop, is_disabled, slot_len,
                   activation_count, slot_index, slot_todo, bw_usage,
                   activation_list, traffic_slices, ppc, pkt, pkt_left,
                   received>>
    /\ UNCHANGED outsideCol

\* start_measurements, line 118: time.sleep(slot_len + delay_len), then the
\* next slot of "for slot in schedule"
SlotSleep ==
    /\ lpc = "slot_sleep"
    /\ IF slot_index < Len(past_schedule_prop.schedule)
       THEN /\ slot_index' = slot_index + 1
            /\ lpc' = "slot"
       ELSE /\ lpc' = "demands"
            /\ UNCHANGED slot_index
    /\ UNCHANGED <<RUNNING, next_id, resolves, qcost, slot_duration,
                   past_schedule_prop, is_disabled, slot_len,
                   activation_count, slot_todo, bw_usage, activation_list,
                   traffic_slices, backend, ppc, pkt, pkt_left, received>>
    /\ UNCHANGED outsideCol

\* start_measurements, line 126:
\* consumed_budget / activation_count[q] / slot_len raises ZeroDivisionError
DemandDivisionFails(count, len) ==
    len = 0 \/ \E q \in ColQueries : count[q] = 0

\* start_measurements, lines 119-131: the demands of the prefixes, the
\* consumer, and the return of campaign_id + 1 to execute_campaigns
RecordDemands ==
    /\ lpc = "demands"
    /\ IF DemandDivisionFails(activation_count, slot_len)
       THEN /\ lpc' = "ZeroDivisionError"
            /\ UNCHANGED next_id
       ELSE /\ next_id' = next_id + 1
            /\ lpc' = "sleep"
    /\ UNCHANGED <<RUNNING, resolves, qcost, slot_duration,
                   past_schedule_prop, is_disabled, slot_len,
                   activation_count, slot_index, slot_todo, bw_usage,
                   activation_list, traffic_slices, backend, ppc, pkt,
                   pkt_left, received>>
    /\ UNCHANGED outsideCol

\* execute_campaigns, line 91: time.sleep(self.requirements.every)
CampaignSleep ==
    /\ lpc = "sleep"
    /\ lpc' = "while"
    /\ UNCHANGED <<RUNNING, next_id, resolves, qcost, slot_duration,
                   past_schedule_prop, is_disabled, slot_len,
                   activation_count, slot_index, slot_todo, bw_usage,
                   activation_list, traffic_slices, backend, ppc, pkt,
                   pkt_left, received>>
    /\ UNCHANGED outsideCol

\* stroboscope/__init__.py: join() clears RUNNING
Join ==
    /\ lpc # "idle"
    /\ RUNNING
    /\ RUNNING' = FALSE
    /\ UNCHANGED <<lpc, next_id, resolves, qcost, slot_duration,
                   past_schedule_prop, is_disabled, slot_len,
                   activation_count, slot_index, slot_todo, bw_usage,
                   activation_list, traffic_slices, backend, ppc, pkt,
                   pkt_left, received>>
    /\ UNCHANGED outsideCol

\* process_packet, lines 159-173: a packet that the rule of query q
\* mirrored arrives; it is dropped unless the activation list holds that
\* rule, and filed in the traffic slices if it does
ProcessPacket ==
    /\ ppc = "recv"
    /\ received < MaxPackets
    /\ received' = received + 1
    /\ \E q \in ColQueries : \E len \in 1..MaxPktLen :
         IF q \in activation_list.rules
         THEN /\ pkt' = [query |-> q, len |-> len,
                         gen |-> activation_list.gen]
              /\ traffic_slices' = traffic_slices + 1
              /\ ppc' = "read"
         ELSE UNCHANGED <<pkt, traffic_slices, ppc>>
    /\ UNCHANGED <<RUNNING, lpc, next_id, resolves, qcost, slot_duration,
                   past_schedule_prop, is_disabled, slot_len,
                   activation_count, slot_index, slot_todo, bw_usage,
                   activation_list, backend, pkt_left>>
    /\ UNCHANGED outsideCol

\* process_packet, line 179: left = self.bw_usage[query] - len(pkt); the
\* dictionary has no key for a query of another generation
ReadUsage ==
    /\ ppc = "read"
    /\ IF pkt.gen = bw_usage.gen
       THEN /\ pkt_left' = bw_usage.left[pkt.query] - pkt.len
            /\ ppc' = "write"
       ELSE /\ ppc' = "KeyError"
            /\ UNCHANGED pkt_left
    /\ UNCHANGED <<RUNNING, lpc, next_id, resolves, qcost, slot_duration,
                   past_schedule_prop, is_disabled, slot_len,
                   activation_count, slot_index, slot_todo, bw_usage,
                   activation_list, traffic_slices, backend, pkt, received>>
    /\ UNCHANGED outsideCol

\* process_packet, lines 181-183: the query is disabled when what is left
\* is below query.cost * slot_duration, and left is stored; a query of an
\* older generation is in no schedule, and its key is read by nobody
WriteUsage ==
    /\ ppc = "write"
    /\ is_disabled' =
          IF /\ pkt_left < qcost[pkt.query] * slot_duration
             /\ pkt.gen = past_schedule_prop.gen
          THEN [is_disabled EXCEPT ![pkt.query] = TRUE]
          ELSE is_disabled
    /\ bw_usage' = IF pkt.gen = bw_usage.gen
                   THEN [bw_usage EXCEPT !.left[pkt.query] = pkt_left]
                   ELSE bw_usage
    /\ ppc' = "recv"
    /\ UNCHANGED <<RUNNING, lpc, next_id, resolves, qcost, slot_duration,
                   past_schedule_prop, slot_len, activation_count,
                   slot_index, slot_todo, activation_list, traffic_slices,
                   backend, pkt, pkt_left, received>>
    /\ UNCHANGED outsideCol

\* A collector whose requirements were parsed, with the backend and the
\* queries of any kind, when execute_campaigns starts.
InitCollector ==
    /\ SchedIdle
    /\ KpsIdle
    /\ NetIdle
    /\ BwIdle
    /\ ConfIdle
    /\ RUNNING = TRUE
    /\ lpc = "while"
    /\ next_id = 0
    /\ resolves \in BOOLEAN
    /\ qcost \in [ColQueries -> 0..MaxColCost]
    /\ slot_duration \in BackendSlotDurations
    /\ past_schedule_prop = <<>>
    /\ is_disabled = [q \in ColQueries |-> FALSE]
    /\ slot_len = 0
    /\ activation_count = [q \in ColQueries |-> 0]
    /\ slot_index = 0
    /\ slot_todo = <<>>
    /\ bw_usage = [gen |-> 0, left |-> [q \in ColQueries |-> 0]]
    /\ activation_list = [gen |-> 0, rules |-> {}]
    /\ traffic_slices = 0
    /\ backend = {}
    /\ ppc = "recv"
    /\ pkt = <<>>
    /\ pkt_left = 0
    /\ received = 0

\* the steps of the thread of execute_campaigns
CampaignLoop ==
    \/ ExecuteCampaigns
    \/ StartMeasurements
    \/ ExecuteSlotReset
    \/ ExecuteSlotAdd
    \/ ExecuteSlotActivate
    \/ SlotSleep
    \/ RecordDemands
    \/ CampaignSleep

NextCollector ==
    \/ CampaignLoop
    \/ Join
    \/ ProcessPacket
    \/ ReadUsage
    \/ WriteUsage

SpecCollector == InitCollector /\ [][NextCollector]_vars

\* The thread of execute_campaigns keeps running: it is scheduled again,
\* and its sleeps end.
SpecCollectorFair == SpecCollector /\ WF_vars(CampaignLoop)

(***************************************************************************)
(* Properties of Part V.                                                   *)
(***************************************************************************)
\* RULE_BACKEND.activate is called in this step
Activates ==
    /\ lpc = "slot_add"
    /\ lpc' = "slot_sleep"
    /\ activation_list.rules # {}

\* C27: the campaign loop tests the running flag before each of its
\* sleeps: once RUNNING is cleared no slot is activated on the rule backend
\* any more, and the loop gets to the call of the consumer's stop().
C27_StopsWhenRunningCleared ==
    /\ [][~RUNNING => ~Activates]_vars
    /\ ~RUNNING ~> lpc = "stopped"

\* the listener finds the rule of a packet in the activation list
Matches == ppc = "recv" /\ ppc' = "read"

\* the listener stores what it has left for the query of its packet
Stores == ppc = "write" /\ ppc' = "recv"

\* C28: with process_packet running next to the campaign loop, no update
\* of the counters of the queries is lost or misplaced in any interleaving:
\* what process_packet stores for a query is what bw_usage holds for it,
\* since its latest reset, minus the size of the packet, and a packet is
\* never matched while execute_slot is still filling the activation list.
C28_NoLostUpdate ==
    [][/\ Stores => /\ bw_usage'.gen = pkt.gen
                    /\ bw_usage'.left[pkt.query]
                          = bw_usage.left[pkt.query] - pkt.len
       /\ Matches => lpc # "slot_add"]_vars

\* C29: at the start of every campaign, every query of the schedule that is
\* about to be executed has is_disabled = False, also when compile returns
\* None and the schedule of the campaign before, with its queries, is
\* executed again.
C29_CampaignStartsEnabled ==
    [][(lpc = "compile" /\ lpc' = "slot")
          => \A q \in UNION Range(past_schedule_prop'.schedule) :
                ~is_disabled'[q]]_vars

\* C30: start_measurements completes every campaign and returns
\* campaign_id + 1 without an arithmetic error: slot_len is positive, and
\* when the demands are computed every compiled query has been activated
\* at least once.
C30_DemandsAreComputed ==
    /\ lpc # "ZeroDivisionError"
    /\ lpc \in {"slot", "slot_add", "slot_sleep", "demands"} => slot_len > 0
    /\ lpc = "demands" => \A q \in ColQueries : activation_count[q] >= 1

====
